---- MODULE Spec2Model ----
(***************************************************************************)
(* strapi-auto-uuid: the write-time guard (server/src/bootstrap.js:        *)
(* beforeCreate, beforeUpdate, generateUniqueUuid, checkUuidExists) and    *)
(* the reconciliation services (diagnose / autofix / runMigration) over a  *)
(* datastore of rows.                                                      *)
(*                                                                         *)
(* The datastore is the collaborator behind strapi.documents(uid) and      *)
(* strapi.db: store[uid] is the list of stored rows of a content type in   *)
(* storage order; the position of a row is its row id, row.documentId its  *)
(* Record Identity (several rows may share one: revisions of one logical   *)
(* record), row.vals[field] the stored value of a monitored field.         *)
(* findMany returns the rows that match a filter in storage order,         *)
(* findFirst the first of them.                                            *)
(***************************************************************************)
EXTENDS Integers, Sequences, FiniteSets, TLC

VARIABLES
    config,   \* the plugin configuration read once in bootstrap
    models,   \* content type uid -> list of its monitored (uuid) fields
    store,    \* content type uid -> stored rows, in storage order
    last,     \* what the most recent operation was given and what it returned
    inflight  \* the asynchronous work in flight: the creates that overlap in
              \* time, each at its suspension point, and the auto-migration
              \* bootstrap scheduled

vars == <<config, models, store, last, inflight>>

----------------------------------------------------------------------------
(* Bounds of the model *)

\* entries of a hand-written snapshot in the import specification
MaxSnapshotEntries == 2

\* most rows each of two content types holds when a request arrives
MaxScopeRows == 1

\* most rows a content type holds when bootstrap returns, in the startup
\* specification
MaxStartupRows == 1

\* twice the largest maxRetryAttempts a user configuration carries
MaxTwiceRetry == 6

\* most rows a content type holds
MaxRows == 3
\* most rows a content type holds when the plugin starts
MaxLegacyRows == 2
\* largest maxRetryAttempts a configuration sets
MaxRetryCfg == 2
\* most entries a hand-written import snapshot lists
MaxImportEntries == 1
\* most rows a content type holds when two overlapping creates start
MaxRaceLegacyRows == 1

----------------------------------------------------------------------------
(* Values *)

\* JavaScript's undefined (a key absent from a payload) and null (a missing
\* documentId or query result)
Undefined == "<undefined>"
Null == "<null>"

\* an empty value of a monitored field: null or '', which every test of the
\* code (!value, value &&, {$null: true} or '') treats alike
Empty == ""

\* what uuidv4()/uuidv7() can return: well-formed identifiers
GenPool == {"u1", "u2"}

\* strings for which the uuid library's validate() answers true
ValidUuids == GenPool

\* a non-empty string that is not a well-formed identifier
Malformed == "not-a-uuid"

\* values a stored row can hold in a monitored field
StoredValues == {Empty} \cup ValidUuids \cup {Malformed}

\* values a payload can carry for a monitored field
InputValues == {Undefined} \cup StoredValues

DocIds == {"d1", "d2"}

\* JavaScript truthiness of the values above: !v
Falsy(v) == v \in {Undefined, Null, Empty}

\* validate() of the uuid package, applied to a non-empty string
validateUuid(v) == v \in ValidUuids

----------------------------------------------------------------------------
(* Sequence helpers *)

Range(s) == {s[i] : i \in DOMAIN s}

Min(S) == CHOOSE x \in S : \A y \in S : x <= y

\* the members of a finite set of integers as an ascending sequence
RECURSIVE Ascending(_)
Ascending(S) ==
    IF S = {} THEN <<>> ELSE <<Min(S)>> \o Ascending(S \ {Min(S)})

----------------------------------------------------------------------------
(* Uniqueness oracle and generator: bootstrap.js *)

\* a filter that matches the value in any monitored field of the row
MatchingRows_AnyField(st, uid, field, uuid, excludeDocumentId) ==
    {i \in DOMAIN st[uid] :
        /\ \E f \in DOMAIN st[uid][i].vals : st[uid][i].vals[f] = uuid
        /\ (~Falsy(excludeDocumentId) => st[uid][i].documentId # excludeDocumentId)}

\* strapi.documents(uid).findFirst({filters: {[field]: uuid, documentId: {$ne: exclude}}}):
\* the ids of the rows that match, the filter on documentId present only for
\* a truthy exclude
MatchingRows(st, uid, field, uuid, excludeDocumentId) ==
    {i \in DOMAIN st[uid] :
        /\ st[uid][i].vals[field] = uuid
        /\ (~Falsy(excludeDocumentId) => st[uid][i].documentId # excludeDocumentId)}

\* a lookup that queries the datastore whatever validateUniqueness says
checkUuidExists_AlwaysQueries(cfg, st, uid, field, uuid, excludeDocumentId) ==
    LET found == MatchingRows(st, uid, field, uuid, excludeDocumentId)
    IN IF found = {}
       THEN [exists |-> FALSE, documentId |-> Null]
       ELSE [exists |-> TRUE, documentId |-> st[uid][Min(found)].documentId]

\* a lookup that answers whether the value is held but not by whom
checkUuidExists_BooleanOnly(cfg, st, uid, field, uuid, excludeDocumentId) ==
    IF ~cfg.validateUniqueness
    THEN [exists |-> FALSE, documentId |-> Null]
    ELSE [exists |-> MatchingRows(st, uid, field, uuid, excludeDocumentId) # {},
          documentId |-> Null]

\* a lookup whose filter matches no row
checkUuidExists_MatchesNothing(cfg, st, uid, field, uuid, excludeDocumentId) ==
    [exists |-> FALSE, documentId |-> Null]

checkUuidExists(cfg, st, uid, field, uuid, excludeDocumentId) ==
    IF ~cfg.validateUniqueness
    THEN [exists |-> FALSE, documentId |-> Null]
    ELSE LET found == MatchingRows(st, uid, field, uuid, excludeDocumentId)
         IN IF found = {}
            THEN [exists |-> FALSE, documentId |-> Null]
            ELSE [exists |-> TRUE, documentId |-> st[uid][Min(found)].documentId]

isUuidExists(cfg, st, uid, field, uuid, excludeDocumentId) ==
    checkUuidExists(cfg, st, uid, field, uuid, excludeDocumentId).exists

\* a loop that returns its first candidate without looking it up
GenerateFrom_Unchecked(cfg, st, uid, field, cands, attempt) ==
    [threw |-> FALSE, value |-> cands[attempt + 1],
     tried |-> SubSeq(cands, 1, attempt + 1)]

\* the retry loop of generateUniqueUuid from a given attempt on; cands[k] is
\* what the k-th call of generateUuid() returns. threw: the ApplicationError
\* after the loop; tried: the candidates generated, in order.
RECURSIVE GenerateFrom(_, _, _, _, _, _)
GenerateFrom(cfg, st, uid, field, cands, attempt) ==
    IF ~(attempt < cfg.maxRetryAttempts)
    THEN [threw |-> TRUE, value |-> Null, tried |-> SubSeq(cands, 1, attempt)]
    ELSE LET newUuid == cands[attempt + 1]
         IN IF ~cfg.validateUniqueness
            THEN [threw |-> FALSE, value |-> newUuid,
                  tried |-> SubSeq(cands, 1, attempt + 1)]
            ELSE IF ~isUuidExists(cfg, st, uid, field, newUuid, Null)
            THEN [threw |-> FALSE, value |-> newUuid,
                  tried |-> SubSeq(cands, 1, attempt + 1)]
            ELSE GenerateFrom(cfg, st, uid, field, cands, attempt + 1)

\* a generator that falls back to its last candidate once the attempts are
\* used up
generateUniqueUuid_FallsBack(cfg, st, uid, field, cands) ==
    LET g == GenerateFrom(cfg, st, uid, field, cands, 0)
    IN IF g.threw
       THEN [threw |-> FALSE, value |-> cands[cfg.maxRetryAttempts],
             tried |-> g.tried]
       ELSE g

generateUniqueUuid(cfg, st, uid, field, cands) ==
    GenerateFrom(cfg, st, uid, field, cands, 0)

----------------------------------------------------------------------------
(* beforeCreate: bootstrap.js *)

\* const currentDocumentId = params.data?.documentId || params.where?.documentId
CurrentDocumentId(dataDoc, whereDoc) ==
    IF ~Falsy(dataDoc) THEN dataDoc ELSE whereDoc

\* a test that sends every value to the generator when autoGenerate is set
ShouldGenerate_WheneverEnabled(cfg, currentValue) ==
    cfg.autoGenerate

\* a test that generates for an empty or malformed value whatever autoGenerate
\* says
ShouldGenerate_IgnoresAutoGenerate(cfg, currentValue) ==
    Falsy(currentValue) \/ ~validateUuid(currentValue)

\* a test that sends only empty values to the generator
ShouldGenerate_EmptyOnly(cfg, currentValue) ==
    Falsy(currentValue) /\ cfg.autoGenerate

\* (!currentValue || !validateUuid(currentValue)) && config.autoGenerate
ShouldGenerate(cfg, currentValue) ==
    (Falsy(currentValue) \/ ~validateUuid(currentValue)) /\ cfg.autoGenerate

\* an owner test that keeps every value found in the store
OwnerArm_AlwaysKeeps(currentDocumentId, existingDocumentId) ==
    IF Falsy(currentDocumentId) THEN "keepNoDocumentId" ELSE "keepSameDocument"

\* an owner test that takes a write without documentId for a duplication
OwnerArm_NoDocumentIdRegenerates(currentDocumentId, existingDocumentId) ==
    IF ~Falsy(currentDocumentId) /\ existingDocumentId = currentDocumentId
    THEN "keepSameDocument"
    ELSE "regenerate"

\* the arm beforeCreate takes for a value found in the store, from the
\* documentId of the write and the documentId of the row findFirst returned
OwnerArm(currentDocumentId, existingDocumentId) ==
    IF ~Falsy(currentDocumentId) /\ existingDocumentId = currentDocumentId
    THEN "keepSameDocument"
    ELSE IF Falsy(currentDocumentId) /\ ~Falsy(existingDocumentId)
    THEN "keepNoDocumentId"
    ELSE "regenerate"

\* one pass of the loop body of beforeCreate for one field. branch names the
\* arm taken; value is params.data[field] after the pass.
beforeCreateField(cfg, st, uid, field, currentDocumentId, currentValue, cands) ==
    LET keep(b) == [threw |-> FALSE, value |-> currentValue, branch |-> b,
                    tried |-> <<>>]
        gen(b) == LET g == generateUniqueUuid(cfg, st, uid, field, cands)
                  IN [threw |-> g.threw,
                      value |-> IF g.threw THEN currentValue ELSE g.value,
                      branch |-> b, tried |-> g.tried]
    IN IF ShouldGenerate(cfg, currentValue)
       THEN gen("generate")
       ELSE IF ~Falsy(currentValue) /\ cfg.validateUniqueness
       THEN LET c == checkUuidExists(cfg, st, uid, field, currentValue, Null)
            IN IF c.exists
               THEN IF OwnerArm(currentDocumentId, c.documentId) = "regenerate"
                    THEN gen("regenerate")
                    ELSE keep(OwnerArm(currentDocumentId, c.documentId))
               ELSE keep("absent")
       ELSE keep("unchecked")

\* beforeCreate: the loop over the monitored fields of the content type, in
\* order; a throw leaves the later fields unvisited. vals is params.data
\* restricted to the monitored fields, cands[field] the values generateUuid()
\* returns while that field is handled.
beforeCreate(cfg, mdl, st, uid, dataDoc, whereDoc, vals, cands) ==
    LET uuidFields == mdl[uid]
        cur == CurrentDocumentId(dataDoc, whereDoc)
        pass == [k \in DOMAIN uuidFields |->
                    beforeCreateField(cfg, st, uid, uuidFields[k], cur,
                                      vals[uuidFields[k]], cands[uuidFields[k]])]
        thrown == {k \in DOMAIN uuidFields : pass[k].threw}
        stop == IF thrown = {} THEN Len(uuidFields) + 1 ELSE Min(thrown)
        idx(f) == CHOOSE k \in DOMAIN uuidFields : uuidFields[k] = f
    IN [threw |-> thrown # {},
        currentDocumentId |-> cur,
        data |-> [f \in Range(uuidFields) |->
                    IF idx(f) < stop THEN pass[idx(f)].value ELSE vals[f]],
        branch |-> [f \in Range(uuidFields) |->
                    IF idx(f) <= stop THEN pass[idx(f)].branch ELSE "notReached"],
        tried |-> [f \in Range(uuidFields) |->
                    IF idx(f) <= stop THEN pass[idx(f)].tried ELSE <<>>]]

\* the value a column holds once a payload value is written to it
Column(v) == IF v = Undefined THEN Empty ELSE v

\* documentIds no stored row of the content type uses
FreshDocIds(st, uid) == DocIds \ {st[uid][i].documentId : i \in DOMAIN st[uid]}

\* the (params.data.documentId, params.where.documentId) pairs of a create;
\* params.where.documentId is read only when the payload carries none
CreateDocs ==
    {<<d, Undefined>> : d \in DocIds \cup {Undefined}}
        \cup {<<Undefined, d>> : d \in DocIds}

\* an insert that looks the values up again and drops the row on a collision
InsertRow_Rechecks(st, uid, documentId, data) ==
    IF \E f \in DOMAIN data : \E i \in DOMAIN st[uid] :
            /\ ~Falsy(data[f])
            /\ st[uid][i].vals[f] = data[f]
            /\ st[uid][i].documentId # documentId
    THEN st
    ELSE [st EXCEPT ![uid] = Append(@,
            [documentId |-> documentId,
             vals |-> [f \in DOMAIN data |-> Column(data[f])]])]

\* the insert that follows a beforeCreate hook that returned: the payload as
\* the hook left it becomes the newest row
InsertRow(st, uid, documentId, data) ==
    [st EXCEPT ![uid] = Append(@,
        [documentId |-> documentId,
         vals |-> [f \in DOMAIN data |-> Column(data[f])]])]

\* A create of one row of a monitored content type: the beforeCreate hook,
\* then the insert of the (possibly rewritten) payload; a throw of the hook
\* aborts the insert. A payload without a documentId is stored under a
\* documentId no other row has.
Create ==
    /\ last.op = "none"
    /\ \E uid \in DOMAIN models :
       \E docs \in CreateDocs :
       \E vals \in [Range(models[uid]) -> InputValues] :
       \E cands \in [Range(models[uid]) -> [1..config.maxRetryAttempts -> GenPool]] :
       \E rowDoc \in DocIds :
           /\ Len(store[uid]) < MaxRows
           /\ IF Falsy(docs[1]) THEN rowDoc \in FreshDocIds(store, uid)
                                ELSE rowDoc = docs[1]
           /\ \E r \in {beforeCreate(config, models, store, uid, docs[1], docs[2],
                                     vals, cands)} :
                 /\ store' = IF r.threw THEN store
                             ELSE InsertRow(store, uid, rowDoc, r.data)
                 /\ last' = [op |-> "create",
                             outcome |-> IF r.threw THEN "ApplicationError" ELSE "ok",
                             uid |-> uid,
                             currentDocumentId |-> r.currentDocumentId,
                             documentId |-> rowDoc,
                             supplied |-> vals,
                             data |-> r.data,
                             branch |-> r.branch,
                             tried |-> r.tried]
           /\ UNCHANGED <<config, models, inflight>>

\* the 'options.uuid-prefix' option of the custom field, as the admin panel
\* registers it: a prefix the editor configures for a monitored field. The
\* server reads no option of the attribute.
FieldPrefix == "usr_"

\* the prefix followed by a well-formed identifier
PrefixedValues == {FieldPrefix \o u : u \in ValidUuids}

\* A create on a monitored field configured with the prefix: the payload
\* carries no value, an empty one or a prefixed identifier; the hook and the
\* insert are those of every create.
CreatePrefixed ==
    /\ last.op = "none"
    /\ \E uid \in DOMAIN models :
       \E docs \in CreateDocs :
       \E vals \in [Range(models[uid]) -> {Undefined, Empty} \cup PrefixedValues] :
       \E cands \in [Range(models[uid]) -> [1..config.maxRetryAttempts -> GenPool]] :
       \E rowDoc \in DocIds :
           /\ Len(store[uid]) < MaxRows
           /\ IF Falsy(docs[1]) THEN rowDoc \in FreshDocIds(store, uid)
                                ELSE rowDoc = docs[1]
           /\ \E r \in {beforeCreate(config, models, store, uid, docs[1], docs[2],
                                     vals, cands)} :
                 /\ store' = IF r.threw THEN store
                             ELSE InsertRow(store, uid, rowDoc, r.data)
                 /\ last' = [op |-> "create",
                             outcome |-> IF r.threw THEN "ApplicationError" ELSE "ok",
                             uid |-> uid,
                             currentDocumentId |-> r.currentDocumentId,
                             documentId |-> rowDoc,
                             supplied |-> vals,
                             data |-> r.data,
                             branch |-> r.branch,
                             tried |-> r.tried]
           /\ UNCHANGED <<config, models, inflight>>

----------------------------------------------------------------------------
(* beforeUpdate: bootstrap.js *)

\* A where clause of an update: present is false for an update without one
\* (it selects the first row);
\* documentId is Undefined and id is 0 when the clause does not carry them;
\* row is the row the clause selects through its other conditions.
Wheres(st, uid) ==
    {[present |-> FALSE, documentId |-> Undefined, id |-> 0, row |-> i] :
        i \in DOMAIN st[uid] \cap {1}}
    \cup {[present |-> TRUE, documentId |-> d, id |-> 0, row |-> 0] :
        d \in DocIds}
    \cup {[present |-> TRUE, documentId |-> Undefined, id |-> i, row |-> 0] :
        i \in DOMAIN st[uid]}
    \cup {[present |-> TRUE, documentId |-> Undefined, id |-> 0, row |-> i] :
        i \in DOMAIN st[uid]}

\* a lookup that falls back to the documentId of the row the write selects
getDocumentIdFromWhere_FallsBackToRow(st, uid, where) ==
    IF where.present /\ ~Falsy(where.documentId) THEN where.documentId
    ELSE IF where.present /\ where.id # 0 /\ where.id \in DOMAIN st[uid]
    THEN st[uid][where.id].documentId
    ELSE IF where.row \in DOMAIN st[uid] THEN st[uid][where.row].documentId
    ELSE Null

getDocumentIdFromWhere(st, uid, where) ==
    IF ~where.present THEN Null
    ELSE IF ~Falsy(where.documentId) THEN where.documentId
    ELSE IF where.id # 0
    THEN IF where.id \in DOMAIN st[uid] /\ ~Falsy(st[uid][where.id].documentId)
         THEN st[uid][where.id].documentId
         ELSE Null
    ELSE Null

\* a pass that never asks isUuidExists
QueriesUniqueness_Never(cfg, newValue) ==
    FALSE

\* if (newValue && config.validateUniqueness): the pass asks isUuidExists
QueriesUniqueness(cfg, newValue) ==
    ~Falsy(newValue) /\ cfg.validateUniqueness

\* a pass that applies the format check to every value present, empty or not
beforeUpdateField_ChecksEmpty(cfg, st, uid, field, documentId, newValue) ==
    IF newValue = Undefined THEN "continue"
    ELSE IF ~validateUuid(newValue) THEN "invalidFormat"
    ELSE IF QueriesUniqueness(cfg, newValue)
            /\ isUuidExists(cfg, st, uid, field, newValue, documentId)
    THEN "alreadyExists"
    ELSE "pass"

\* one pass of the loop body of beforeUpdate for one field
beforeUpdateField(cfg, st, uid, field, documentId, newValue) ==
    IF newValue = Undefined THEN "continue"
    ELSE IF ~Falsy(newValue) /\ ~validateUuid(newValue) THEN "invalidFormat"
    ELSE IF QueriesUniqueness(cfg, newValue)
            /\ isUuidExists(cfg, st, uid, field, newValue, documentId)
    THEN "alreadyExists"
    ELSE "pass"

\* beforeUpdate: threw is the ValidationError, error its details
\* {field, uuid}, thrown at the first field that fails. pass[f] is the outcome
\* of the loop body for field f ("notReached" when the hook returned or threw
\* before it), queried[f] whether isUuidExists was asked about f.
beforeUpdate(cfg, mdl, st, uid, where, vals) ==
    LET uuidFields == mdl[uid]
        documentId == getDocumentIdFromWhere(st, uid, where)
        pass == [k \in DOMAIN uuidFields |->
                    beforeUpdateField(cfg, st, uid, uuidFields[k], documentId,
                                      vals[uuidFields[k]])]
        thrown == {k \in DOMAIN uuidFields : pass[k] \in {"invalidFormat", "alreadyExists"}}
        stop == IF Falsy(documentId) THEN 0
                ELSE IF thrown = {} THEN Len(uuidFields) ELSE Min(thrown)
        idx(f) == CHOOSE k \in DOMAIN uuidFields : uuidFields[k] = f
        passOf == [f \in Range(uuidFields) |->
                    IF idx(f) <= stop THEN pass[idx(f)] ELSE "notReached"]
        queried == [f \in Range(uuidFields) |->
                    /\ passOf[f] \in {"alreadyExists", "pass"}
                    /\ QueriesUniqueness(cfg, vals[f])]
    IN IF Falsy(documentId)
       THEN [threw |-> FALSE, documentId |-> documentId, reason |-> "noDocumentId",
             error |-> [field |-> Null, uuid |-> Null],
             pass |-> passOf, queried |-> queried]
       ELSE IF thrown = {}
       THEN [threw |-> FALSE, documentId |-> documentId, reason |-> "pass",
             error |-> [field |-> Null, uuid |-> Null],
             pass |-> passOf, queried |-> queried]
       ELSE [threw |-> TRUE, documentId |-> documentId, reason |-> pass[Min(thrown)],
             error |-> [field |-> uuidFields[Min(thrown)],
                        uuid |-> vals[uuidFields[Min(thrown)]]],
             pass |-> passOf, queried |-> queried]

\* the row an update's where clause selects: the first row that matches
\* (0: none)
TargetRow(st, uid, where) ==
    IF where.present /\ ~Falsy(where.documentId)
    THEN LET m == {i \in DOMAIN st[uid] : st[uid][i].documentId = where.documentId}
         IN IF m = {} THEN 0 ELSE Min(m)
    ELSE IF where.present /\ where.id # 0
    THEN IF where.id \in DOMAIN st[uid] THEN where.id ELSE 0
    ELSE where.row

\* a write that stores an omitted field as empty
WriteRow_ClearsOmitted(st, uid, i, vals) ==
    IF i = 0 THEN st
    ELSE [st EXCEPT ![uid][i].vals = [f \in DOMAIN @ |-> Column(vals[f])]]

\* the rows after the payload's monitored fields are written to row i
WriteRow(st, uid, i, vals) ==
    IF i = 0 THEN st
    ELSE [st EXCEPT ![uid][i].vals =
            [f \in DOMAIN @ |-> IF vals[f] = Undefined THEN @[f] ELSE vals[f]]]

\* a datastore that writes although the hook threw
CommitUpdate_IgnoresThrow(st, uid, target, vals, threw) ==
    WriteRow(st, uid, target, vals)

\* the store after the hook: a throw of beforeUpdate aborts the write
CommitUpdate(st, uid, target, vals, threw) ==
    IF threw THEN st ELSE WriteRow(st, uid, target, vals)

\* An update of one row of a monitored content type: the beforeUpdate hook,
\* then the write of the payload to the selected row; a throw of the hook
\* aborts the write.
Update ==
    /\ last.op = "none"
    /\ \E uid \in DOMAIN models :
       \E where \in Wheres(store, uid) :
       \E vals \in [Range(models[uid]) -> InputValues] :
           /\ \E r \in {beforeUpdate(config, models, store, uid, where, vals)} :
              \E target \in {TargetRow(store, uid, where)} :
                 /\ store' = CommitUpdate(store, uid, target, vals, r.threw)
                 /\ last' = [op |-> "update",
                             outcome |-> IF r.threw THEN "ValidationError" ELSE "ok",
                             uid |-> uid,
                             documentId |-> r.documentId,
                             target |-> target,
                             supplied |-> vals,
                             reason |-> r.reason,
                             error |-> r.error,
                             pass |-> r.pass,
                             queried |-> r.queried]
           /\ UNCHANGED <<config, models, inflight>>

----------------------------------------------------------------------------
(* The document service's update, as the services call it *)

\* strapi.documents(uid).update({documentId, data: {[field]: value}}): the
\* write reaches the datastore through the beforeUpdate hook (where: the row
\* id) and sets the field on the rows of that document.
DocumentUpdate(cfg, mdl, st, uid, documentId, field, value) ==
    LET rows == {i \in DOMAIN st[uid] : st[uid][i].documentId = documentId}
        vals == [f \in Range(mdl[uid]) |-> IF f = field THEN value ELSE Undefined]
        where == [present |-> TRUE, documentId |-> Undefined, id |-> Min(rows),
                  row |-> 0]
    IN IF rows = {} THEN [threw |-> FALSE, st |-> st]
       ELSE IF beforeUpdate(cfg, mdl, st, uid, where, vals).threw
       THEN [threw |-> TRUE, st |-> st]
       ELSE [threw |-> FALSE,
             st |-> [st EXCEPT ![uid] =
                       [i \in DOMAIN @ |->
                          IF i \in rows THEN [@[i] EXCEPT !.vals[field] = value]
                          ELSE @[i]]]]

----------------------------------------------------------------------------
(* Diagnosis and duplicate fix of the plugin service *)

\* the order in which Object.entries / Object.keys visit the content types
UidOrder == <<"article", "page">>

\* the service's checkDuplicate: a malformed value is answered without a
\* lookup; otherwise findFirst with the filter of checkUuidExists, whatever
\* validateUniqueness says
checkDuplicate(st, contentType, field, uuid, excludeDocumentId) ==
    IF ~validateUuid(uuid)
    THEN [exists |-> FALSE, valid |-> FALSE]
    ELSE [exists |-> MatchingRows(st, contentType, field, uuid, excludeDocumentId) # {},
          valid |-> TRUE]

\* a check that also clears the field on the rows it finds
CheckDuplicate_ClearsMatches ==
    /\ last.op = "none"
    /\ \E contentType \in DOMAIN models :
       \E field \in Range(models[contentType]) :
       \E uuid \in StoredValues :
       \E excludeDocumentId \in DocIds \cup {Undefined} :
           /\ last' = [op |-> "checkDuplicate", outcome |-> "ok",
                       contentType |-> contentType, field |-> field, uuid |-> uuid,
                       excludeDocumentId |-> excludeDocumentId,
                       result |-> [exists |-> FALSE, valid |-> validateUuid(uuid)]]
           /\ store' = [store EXCEPT ![contentType] =
                          [i \in DOMAIN @ |->
                             IF @[i].vals[field] = uuid
                             THEN [@[i] EXCEPT !.vals[field] = Empty]
                             ELSE @[i]]]
           /\ UNCHANGED <<config, models, inflight>>

\* POST /check-duplicate: the controller answers badRequest when a parameter
\* is missing and hands the others to the service
CheckDuplicate ==
    /\ last.op = "none"
    /\ \E contentType \in DOMAIN models :
       \E field \in Range(models[contentType]) :
       \E uuid \in StoredValues :
       \E excludeDocumentId \in DocIds \cup {Undefined} :
           /\ last' = IF Falsy(uuid)
                      THEN [op |-> "checkDuplicate", outcome |-> "badRequest",
                            contentType |-> contentType, field |-> field,
                            uuid |-> uuid, excludeDocumentId |-> excludeDocumentId,
                            result |-> [exists |-> FALSE, valid |-> FALSE]]
                      ELSE [op |-> "checkDuplicate", outcome |-> "ok",
                            contentType |-> contentType, field |-> field,
                            uuid |-> uuid, excludeDocumentId |-> excludeDocumentId,
                            result |-> checkDuplicate(store, contentType, field, uuid,
                                                      excludeDocumentId)]
           /\ UNCHANGED <<config, models, store, inflight>>

\* getUuidModels(): the monitored (uid, field) pairs in visiting order
RECURSIVE FieldsFrom(_, _)
FieldsFrom(mdl, k) ==
    IF k > Len(UidOrder) THEN <<>>
    ELSE (IF UidOrder[k] \in DOMAIN mdl
          THEN [j \in DOMAIN mdl[UidOrder[k]] |->
                    [uid |-> UidOrder[k], field |-> mdl[UidOrder[k]][j]]]
          ELSE <<>>) \o FieldsFrom(mdl, k + 1)

getUuidModels(mdl) == FieldsFrom(mdl, 1)

\* findDuplicatesForField: the rows grouped by non-empty value, groups in the
\* order their value is first met, each with the documentIds of its rows in
\* scan order; the groups of more than one entry are returned.
findDuplicatesForField(st, uid, field) ==
    LET entries == st[uid]
        held == [i \in DOMAIN entries |-> entries[i].vals[field]]
        firsts == Ascending({i \in DOMAIN entries :
                               /\ ~Falsy(held[i])
                               /\ \A j \in 1..(i - 1) : held[j] # held[i]})
        members == [k \in DOMAIN firsts |->
                      Ascending({j \in DOMAIN entries : held[j] = held[firsts[k]]})]
        groups == [k \in DOMAIN firsts |->
                     [uuid |-> held[firsts[k]],
                      count |-> Len(members[k]),
                      documentIds |-> [m \in DOMAIN members[k] |->
                                         entries[members[k][m]].documentId]]]
    IN SelectSeq(groups, LAMBDA g : g.count > 1)

\* diagnose(): per monitored field, the duplicate groups found
diagnose(mdl, st) ==
    [k \in DOMAIN getUuidModels(mdl) |->
        LET m == getUuidModels(mdl)[k]
            duplicates == findDuplicatesForField(st, m.uid, m.field)
        IN [uid |-> m.uid, field |-> m.field,
            duplicateGroups |-> Len(duplicates),
            duplicates |-> duplicates]]

\* GET /diagnose: the report of the service's diagnose()
Diagnose ==
    /\ last.op = "none"
    /\ last' = [op |-> "diagnose", outcome |-> "ok",
                report |-> diagnose(models, store)]
    /\ UNCHANGED <<config, models, store, inflight>>

\* the members of the groups that are to be given a new value: all but the
\* first documentId of each group, in group order
RECURSIVE DuplicateTasks(_, _)
DuplicateTasks(duplicates, k) ==
    IF k > Len(duplicates) THEN <<>>
    ELSE [m \in 1..(duplicates[k].count - 1) |->
            [documentId |-> duplicates[k].documentIds[m + 1],
             oldUuid |-> duplicates[k].uuid,
             kept |-> duplicates[k].documentIds[1]]]
         \o DuplicateTasks(duplicates, k + 1)

\* the loops of fixDuplicatesForField from task k on. acc carries the store,
\* the number of uuidv4() calls made so far (gens[acc.g + 1] is the next
\* value), the changes pushed, the count of fixes, and whether an update
\* threw (which ends the function: it has no catch).
RECURSIVE FixDuplicateTasks(_, _, _, _, _, _, _, _, _)
FixDuplicateTasks(cfg, mdl, uid, field, tasks, k, dryRun, gens, acc) ==
    IF k > Len(tasks) \/ acc.threw THEN acc
    ELSE LET newUuid == gens[acc.g + 1]
             change == [uid |-> uid, field |-> field,
                        documentId |-> tasks[k].documentId,
                        oldUuid |-> tasks[k].oldUuid, newUuid |-> newUuid,
                        kept |-> tasks[k].kept]
             w == IF dryRun THEN [threw |-> FALSE, st |-> acc.st]
                  ELSE DocumentUpdate(cfg, mdl, acc.st, uid, tasks[k].documentId,
                                      field, newUuid)
         IN FixDuplicateTasks(cfg, mdl, uid, field, tasks, k + 1, dryRun, gens,
               [st |-> w.st, g |-> acc.g + 1,
                changes |-> Append(acc.changes, change),
                fixed |-> IF w.threw THEN acc.fixed ELSE acc.fixed + 1,
                threw |-> w.threw])

fixDuplicatesForField(cfg, mdl, uid, field, dryRun, gens, acc) ==
    FixDuplicateTasks(cfg, mdl, uid, field,
        DuplicateTasks(findDuplicatesForField(acc.st, uid, field), 1),
        1, dryRun, gens, acc)

\* autofix(): fixDuplicatesForField over the monitored fields in order
RECURSIVE AutofixFrom(_, _, _, _, _, _)
AutofixFrom(cfg, mdl, k, dryRun, gens, acc) ==
    IF k > Len(getUuidModels(mdl)) \/ acc.threw THEN acc
    ELSE AutofixFrom(cfg, mdl, k + 1, dryRun, gens,
            fixDuplicatesForField(cfg, mdl, getUuidModels(mdl)[k].uid,
                                  getUuidModels(mdl)[k].field, dryRun, gens, acc))

\* an autofix that writes whatever dryRun says
autofix_IgnoresDryRun(cfg, mdl, st, dryRun, gens) ==
    AutofixFrom(cfg, mdl, 1, FALSE, gens,
        [st |-> st, g |-> 0, changes |-> <<>>, fixed |-> 0, threw |-> FALSE])

autofix(cfg, mdl, st, dryRun, gens) ==
    AutofixFrom(cfg, mdl, 1, dryRun, gens,
        [st |-> st, g |-> 0, changes |-> <<>>, fixed |-> 0, threw |-> FALSE])

\* the number of entries of the duplicate groups beyond the first of each
RECURSIVE Surplus(_, _)
Surplus(duplicates, k) ==
    IF k > Len(duplicates) THEN 0
    ELSE (duplicates[k].count - 1) + Surplus(duplicates, k + 1)

\* the uuidv4() calls an autofix of the store makes when no update throws
RECURSIVE AutofixCalls(_, _, _)
AutofixCalls(mdl, st, k) ==
    IF k > Len(getUuidModels(mdl)) THEN 0
    ELSE Surplus(findDuplicatesForField(st, getUuidModels(mdl)[k].uid,
                                        getUuidModels(mdl)[k].field), 1)
         + AutofixCalls(mdl, st, k + 1)

\* POST /autofix: the service's autofix, dry or live. An update that throws
\* ends it with the writes made so far in place.
Autofix ==
    /\ last.op = "none"
    /\ \E dryRun \in BOOLEAN :
       \E gens \in [1..AutofixCalls(models, store, 1) -> GenPool] :
           /\ \E r \in {autofix(config, models, store, dryRun, gens)} :
                 /\ store' = r.st
                 /\ last' = [op |-> "autofix",
                             outcome |-> IF r.threw THEN "ValidationError" ELSE "ok",
                             dryRun |-> dryRun,
                             totalFixed |-> r.fixed,
                             changes |-> r.changes]
           /\ UNCHANGED <<config, models, inflight>>

\* the documentIds of the rows whose field is null or '', in storage order:
\* findMany({filters: {$or: [{[field]: {$null: true}}, {[field]: ''}]}})
EmptyEntries(st, uid, field) ==
    LET rows == Ascending({i \in DOMAIN st[uid] : Falsy(st[uid][i].vals[field])})
    IN [k \in DOMAIN rows |-> st[uid][rows[k]].documentId]

\* the loop of generateMissing over the entries of one field from entry k
\* on; an update that throws ends the function (it has no catch).
RECURSIVE GenerateMissingFrom(_, _, _, _, _, _, _, _, _)
GenerateMissingFrom(cfg, mdl, uid, field, entries, k, dryRun, gens, acc) ==
    IF k > Len(entries) \/ acc.threw THEN acc
    ELSE LET newUuid == gens[acc.g + 1]
             w == IF dryRun THEN [threw |-> FALSE, st |-> acc.st]
                  ELSE DocumentUpdate(cfg, mdl, acc.st, uid, entries[k], field, newUuid)
         IN GenerateMissingFrom(cfg, mdl, uid, field, entries, k + 1, dryRun, gens,
               [st |-> w.st, g |-> acc.g + 1,
                changes |-> Append(acc.changes,
                              [uid |-> uid, field |-> field,
                               documentId |-> entries[k], newUuid |-> newUuid]),
                threw |-> w.threw])

RECURSIVE GenerateMissingFields(_, _, _, _, _, _)
GenerateMissingFields(cfg, mdl, k, dryRun, gens, acc) ==
    IF k > Len(getUuidModels(mdl)) \/ acc.threw THEN acc
    ELSE GenerateMissingFields(cfg, mdl, k + 1, dryRun, gens,
            GenerateMissingFrom(cfg, mdl, getUuidModels(mdl)[k].uid,
                getUuidModels(mdl)[k].field,
                EmptyEntries(acc.st, getUuidModels(mdl)[k].uid,
                             getUuidModels(mdl)[k].field),
                1, dryRun, gens, acc))

generateMissing(cfg, mdl, st, dryRun, gens) ==
    GenerateMissingFields(cfg, mdl, 1, dryRun, gens,
        [st |-> st, g |-> 0, changes |-> <<>>, threw |-> FALSE])

\* the uuidv4() calls generateMissing makes when no update throws
RECURSIVE MissingCalls(_, _, _)
MissingCalls(mdl, st, k) ==
    IF k > Len(getUuidModels(mdl)) THEN 0
    ELSE Len(EmptyEntries(st, getUuidModels(mdl)[k].uid, getUuidModels(mdl)[k].field))
         + MissingCalls(mdl, st, k + 1)

\* POST /generate-missing: the service's generateMissing, dry or live
GenerateMissing ==
    /\ last.op = "none"
    /\ \E dryRun \in BOOLEAN :
       \E gens \in [1..MissingCalls(models, store, 1) -> GenPool] :
           /\ \E r \in {generateMissing(config, models, store, dryRun, gens)} :
                 /\ store' = r.st
                 /\ last' = [op |-> "generateMissing",
                             outcome |-> IF r.threw THEN "ValidationError" ELSE "ok",
                             dryRun |-> dryRun,
                             generated |-> gens,
                             totalGenerated |-> Len(r.changes),
                             changes |-> r.changes]
           /\ UNCHANGED <<config, models, inflight>>

----------------------------------------------------------------------------
(* The migration service: checkMigrationStatus and runMigration *)

\* the report of checkMigrationStatus for one monitored field: the count of
\* empty entries, the 'invalid' issues in scan order and the 'duplicate'
\* issues in the order their value is first met
FieldStatus(st, uid, field) ==
    LET entries == st[uid]
        invalid == Ascending({i \in DOMAIN entries :
                                /\ ~Falsy(entries[i].vals[field])
                                /\ ~validateUuid(entries[i].vals[field])})
    IN [uid |-> uid, field |-> field,
        entryCount |-> Len(entries),
        emptyCount |-> Cardinality({i \in DOMAIN entries :
                                        Falsy(entries[i].vals[field])}),
        invalid |-> [k \in DOMAIN invalid |->
                        [documentId |-> entries[invalid[k]].documentId,
                         value |-> entries[invalid[k]].vals[field]]],
        duplicates |-> findDuplicatesForField(st, uid, field)]

checkMigrationStatus(mdl, st) ==
    LET contentTypes == [k \in DOMAIN getUuidModels(mdl) |->
                            FieldStatus(st, getUuidModels(mdl)[k].uid,
                                        getUuidModels(mdl)[k].field)]
    IN [contentTypes |-> contentTypes,
        totalFields |-> Len(contentTypes),
        needsMigration |-> \E k \in DOMAIN contentTypes :
                              \/ contentTypes[k].emptyCount > 0
                              \/ Len(contentTypes[k].invalid) > 0
                              \/ Surplus(contentTypes[k].duplicates, 1) > 0]

\* GET /migration/status: the report of checkMigrationStatus()
CheckMigrationStatus ==
    /\ last.op = "none"
    /\ last' = [op |-> "checkMigrationStatus", outcome |-> "ok",
                report |-> checkMigrationStatus(models, store)]
    /\ UNCHANGED <<config, models, store, inflight>>

\* a corrective step that logs and counts but never issues the update
MigrationStep_NeverWrites(cfg, mdl, uid, field, type, documentId, oldValue, dryRun, gens, acc) ==
    [st |-> acc.st, g |-> acc.g + 1,
     changes |-> Append(acc.changes,
                   [type |-> type, uid |-> uid, field |-> field,
                    documentId |-> documentId, oldValue |-> oldValue,
                    newValue |-> gens[acc.g + 1]]),
     errors |-> acc.errors,
     fixed |-> [acc.fixed EXCEPT ![type] = @ + 1],
     threw |-> FALSE]

\* one corrective step of runMigration: the change is pushed, then (live) the
\* update is issued. acc carries the store, the uuidv4() calls made, the
\* changes, the errors and the fixed counters.
MigrationStep(cfg, mdl, uid, field, type, documentId, oldValue, dryRun, gens, acc) ==
    LET newUuid == gens[acc.g + 1]
        change == [type |-> type, uid |-> uid, field |-> field,
                   documentId |-> documentId, oldValue |-> oldValue,
                   newValue |-> newUuid]
        w == IF dryRun THEN [threw |-> FALSE, st |-> acc.st]
             ELSE DocumentUpdate(cfg, mdl, acc.st, uid, documentId, field, newUuid)
    IN [st |-> w.st, g |-> acc.g + 1,
        changes |-> Append(acc.changes, change),
        errors |-> IF w.threw
                   THEN Append(acc.errors, [type |-> type, uid |-> uid,
                                            field |-> field, documentId |-> documentId])
                   ELSE acc.errors,
        fixed |-> IF w.threw THEN acc.fixed
                  ELSE [acc.fixed EXCEPT ![type] = @ + 1],
        threw |-> w.threw]

\* the loop over emptyEntries, inside one try: a throw ends the loop
RECURSIVE FixEmptyFrom(_, _, _, _, _, _, _, _, _)
FixEmptyFrom(cfg, mdl, uid, field, emptyEntries, k, dryRun, gens, acc) ==
    IF k > Len(emptyEntries) THEN acc
    ELSE LET a == MigrationStep(cfg, mdl, uid, field, "empty", emptyEntries[k],
                                Null, dryRun, gens, acc)
         IN IF a.threw THEN a
            ELSE FixEmptyFrom(cfg, mdl, uid, field, emptyEntries, k + 1, dryRun,
                              gens, a)

\* the loop over the 'invalid' issues, a try around each update
RECURSIVE FixInvalidFrom(_, _, _, _, _, _, _, _, _)
FixInvalidFrom(cfg, mdl, uid, field, issues, k, dryRun, gens, acc) ==
    IF k > Len(issues) THEN acc
    ELSE FixInvalidFrom(cfg, mdl, uid, field, issues, k + 1, dryRun, gens,
            MigrationStep(cfg, mdl, uid, field, "invalid", issues[k].documentId,
                          issues[k].value, dryRun, gens, acc))

\* the loops over the 'duplicate' issues and the documentIds after the first
\* of each, a try around each update
RECURSIVE FixDuplicatesFrom(_, _, _, _, _, _, _, _, _)
FixDuplicatesFrom(cfg, mdl, uid, field, tasks, k, dryRun, gens, acc) ==
    IF k > Len(tasks) THEN acc
    ELSE FixDuplicatesFrom(cfg, mdl, uid, field, tasks, k + 1, dryRun, gens,
            MigrationStep(cfg, mdl, uid, field, "duplicates", tasks[k].documentId,
                          tasks[k].oldUuid, dryRun, gens, acc))

\* the body of runMigration's loop for one entry of status.contentTypes
MigrateField(cfg, mdl, ctInfo, opts, gens, acc) ==
    LET uid == ctInfo.uid
        field == ctInfo.field
        emptyRows == Ascending({i \in DOMAIN acc.st[uid] :
                                    Falsy(acc.st[uid][i].vals[field])})
        emptyEntries == [k \in DOMAIN emptyRows |->
                            acc.st[uid][emptyRows[k]].documentId]
        a1 == IF opts.fixEmpty /\ ctInfo.emptyCount > 0
              THEN FixEmptyFrom(cfg, mdl, uid, field, emptyEntries, 1,
                                opts.dryRun, gens, acc)
              ELSE acc
        a2 == IF opts.fixInvalid
              THEN FixInvalidFrom(cfg, mdl, uid, field, ctInfo.invalid, 1,
                                  opts.dryRun, gens, a1)
              ELSE a1
    IN IF opts.fixDuplicates
       THEN FixDuplicatesFrom(cfg, mdl, uid, field,
                              DuplicateTasks(ctInfo.duplicates, 1), 1,
                              opts.dryRun, gens, a2)
       ELSE a2

RECURSIVE MigrateFrom(_, _, _, _, _, _, _)
MigrateFrom(cfg, mdl, status, k, opts, gens, acc) ==
    IF k > Len(status.contentTypes) THEN acc
    ELSE MigrateFrom(cfg, mdl, status, k + 1, opts, gens,
            MigrateField(cfg, mdl, status.contentTypes[k], opts, gens, acc))

runMigration(cfg, mdl, st, opts, gens) ==
    MigrateFrom(cfg, mdl, checkMigrationStatus(mdl, st), 1, opts, gens,
        [st |-> st, g |-> 0, changes |-> <<>>, errors |-> <<>>,
         fixed |-> [empty |-> 0, invalid |-> 0, duplicates |-> 0],
         threw |-> FALSE])

\* the uuidv4() calls a run makes when no update throws
RECURSIVE MigrationCalls(_, _, _)
MigrationCalls(status, opts, k) ==
    IF k > Len(status.contentTypes) THEN 0
    ELSE (IF opts.fixEmpty THEN status.contentTypes[k].emptyCount ELSE 0)
         + (IF opts.fixInvalid THEN Len(status.contentTypes[k].invalid) ELSE 0)
         + (IF opts.fixDuplicates
            THEN Surplus(status.contentTypes[k].duplicates, 1) ELSE 0)
         + MigrationCalls(status, opts, k + 1)

MigrationOptions ==
    [dryRun : BOOLEAN, fixEmpty : BOOLEAN, fixInvalid : BOOLEAN,
     fixDuplicates : BOOLEAN]

\* POST /migration/run: runMigration with the options of the request
RunMigration ==
    /\ last.op = "none"
    /\ \E opts \in MigrationOptions :
       \E gens \in [1..MigrationCalls(checkMigrationStatus(models, store), opts, 1)
                       -> GenPool] :
           /\ \E r \in {runMigration(config, models, store, opts, gens)} :
                 /\ store' = r.st
                 /\ last' = [op |-> "runMigration", outcome |-> "ok",
                             options |-> opts,
                             generated |-> gens,
                             fixed |-> r.fixed,
                             errors |-> r.errors,
                             changes |-> r.changes]
           /\ UNCHANGED <<config, models, inflight>>

----------------------------------------------------------------------------
(* The migration service: exportMappings and importMappings *)

\* exportMappings(): per monitored field, every entry findMany returns as
\* {documentId, uuid}, in storage order
exportMappings(mdl, st) ==
    [k \in DOMAIN getUuidModels(mdl) |->
        LET m == getUuidModels(mdl)[k]
        IN [uid |-> m.uid, field |-> m.field,
            entries |-> [i \in DOMAIN st[m.uid] |->
                           [documentId |-> st[m.uid][i].documentId,
                            uuid |-> st[m.uid][i].vals[m.field]]]]]

\* GET /migration/export
ExportMappings ==
    /\ last.op = "none"
    /\ last' = [op |-> "exportMappings", outcome |-> "ok",
                mappings |-> exportMappings(models, store)]
    /\ UNCHANGED <<config, models, store, inflight>>

\* import data without a mappings member
NoMappings == <<[uid |-> Null, field |-> Null, entries |-> <<>>]>>

\* importMappings' loop body, variant: an entry that names no record is
\* skipped without an error
ImportEntry_UnknownSilent(cfg, mdl, uid, field, entry, dryRun, overwrite, acc) ==
    LET rows == {i \in DOMAIN acc.st[uid] : acc.st[uid][i].documentId = entry.documentId}
        existing == acc.st[uid][Min(rows)].vals[field]
        w == IF dryRun THEN [threw |-> FALSE, st |-> acc.st]
             ELSE DocumentUpdate(cfg, mdl, acc.st, uid, entry.documentId, field,
                                 entry.uuid)
    IN IF Falsy(entry.documentId) \/ Falsy(entry.uuid) \/ rows = {}
       THEN [acc EXCEPT !.skipped = @ + 1]
       ELSE IF ~Falsy(existing) /\ ~overwrite
       THEN [acc EXCEPT !.skipped = @ + 1]
       ELSE [st |-> w.st,
             imported |-> IF w.threw THEN acc.imported ELSE acc.imported + 1,
             skipped |-> acc.skipped,
             errors |-> IF w.threw
                        THEN Append(acc.errors, [kind |-> "failed", uid |-> uid,
                                                 documentId |-> entry.documentId])
                        ELSE acc.errors,
             changes |-> Append(acc.changes,
                           [uid |-> uid, field |-> field,
                            documentId |-> entry.documentId,
                            oldValue |-> existing, newValue |-> entry.uuid])]

\* the body of importMappings' innermost loop for one entry. acc carries the
\* store, the counters, the errors and the changes.
ImportEntry(cfg, mdl, uid, field, entry, dryRun, overwrite, acc) ==
    LET rows == {i \in DOMAIN acc.st[uid] : acc.st[uid][i].documentId = entry.documentId}
        existing == acc.st[uid][Min(rows)].vals[field]
        w == IF dryRun THEN [threw |-> FALSE, st |-> acc.st]
             ELSE DocumentUpdate(cfg, mdl, acc.st, uid, entry.documentId, field,
                                 entry.uuid)
    IN IF Falsy(entry.documentId) \/ Falsy(entry.uuid)
       THEN [acc EXCEPT !.skipped = @ + 1]
       ELSE IF rows = {}
       THEN [acc EXCEPT !.skipped = @ + 1,
                        !.errors = Append(@, [kind |-> "notFound", uid |-> uid,
                                              documentId |-> entry.documentId])]
       ELSE IF ~Falsy(existing) /\ ~overwrite
       THEN [acc EXCEPT !.skipped = @ + 1]
       ELSE [st |-> w.st,
             imported |-> IF w.threw THEN acc.imported ELSE acc.imported + 1,
             skipped |-> acc.skipped,
             errors |-> IF w.threw
                        THEN Append(acc.errors, [kind |-> "failed", uid |-> uid,
                                                 documentId |-> entry.documentId])
                        ELSE acc.errors,
             changes |-> Append(acc.changes,
                           [uid |-> uid, field |-> field,
                            documentId |-> entry.documentId,
                            oldValue |-> existing, newValue |-> entry.uuid])]

RECURSIVE ImportEntries(_, _, _, _, _, _, _, _, _)
ImportEntries(cfg, mdl, uid, field, entries, k, dryRun, overwrite, acc) ==
    IF k > Len(entries) THEN acc
    ELSE ImportEntries(cfg, mdl, uid, field, entries, k + 1, dryRun, overwrite,
            ImportEntry(cfg, mdl, uid, field, entries[k], dryRun, overwrite, acc))

RECURSIVE ImportFields(_, _, _, _, _, _, _)
ImportFields(cfg, mdl, mappings, k, dryRun, overwrite, acc) ==
    IF k > Len(mappings) THEN acc
    ELSE ImportFields(cfg, mdl, mappings, k + 1, dryRun, overwrite,
            ImportEntries(cfg, mdl, mappings[k].uid, mappings[k].field,
                          mappings[k].entries, 1, dryRun, overwrite, acc))

importMappings(cfg, mdl, st, importData, dryRun, overwrite) ==
    IF importData = NoMappings
    THEN [st |-> st, imported |-> 0, skipped |-> 0,
          errors |-> <<[kind |-> "missingMappings", uid |-> Null, documentId |-> Null]>>,
          changes |-> <<>>]
    ELSE ImportFields(cfg, mdl, importData, 1, dryRun, overwrite,
            [st |-> st, imported |-> 0, skipped |-> 0, errors |-> <<>>,
             changes |-> <<>>])

\* the import data of a request: the export of the present store, a
\* hand-written snapshot for the first monitored field, or data without
\* mappings
ImportData(mdl, st) ==
    {exportMappings(mdl, st), NoMappings}
    \cup {<<[uid |-> getUuidModels(mdl)[1].uid, field |-> getUuidModels(mdl)[1].field,
             entries |-> es]>> :
            es \in UNION {[1..n -> [documentId : DocIds, uuid : GenPool]] :
                             n \in 0..MaxImportEntries}}

\* POST /migration/import
ImportMappings ==
    /\ last.op = "none"
    /\ \E importData \in ImportData(models, store) :
       \E dryRun \in BOOLEAN :
       \E overwrite \in BOOLEAN :
           /\ \E r \in {importMappings(config, models, store, importData, dryRun,
                                       overwrite)} :
                 /\ store' = r.st
                 /\ last' = [op |-> "importMappings", outcome |-> "ok",
                             importData |-> importData,
                             dryRun |-> dryRun, overwrite |-> overwrite,
                             imported |-> r.imported, skipped |-> r.skipped,
                             errors |-> r.errors, changes |-> r.changes]
           /\ UNCHANGED <<config, models, inflight>>

\* hand-written snapshots for the first monitored field: entries in any order,
\* a documentId listed any number of times, a value present or missing
Snapshots(mdl) ==
    {<<[uid |-> getUuidModels(mdl)[1].uid, field |-> getUuidModels(mdl)[1].field,
        entries |-> es]>> :
       es \in UNION {[1..n -> [documentId : DocIds, uuid : GenPool \cup {Empty}]] :
                        n \in 0..MaxSnapshotEntries}}

\* POST /migration/import with a hand-written snapshot
ImportSnapshot ==
    /\ last.op = "none"
    /\ \E importData \in Snapshots(models) :
       \E dryRun \in BOOLEAN :
       \E overwrite \in BOOLEAN :
           /\ \E r \in {importMappings(config, models, store, importData, dryRun,
                                       overwrite)} :
                 /\ store' = r.st
                 /\ last' = [op |-> "importMappings", outcome |-> "ok",
                             importData |-> importData,
                             dryRun |-> dryRun, overwrite |-> overwrite,
                             imported |-> r.imported, skipped |-> r.skipped,
                             errors |-> r.errors, changes |-> r.changes]
           /\ UNCHANGED <<config, models, inflight>>

\* The operation in progress hands its result back to its caller; the next
\* operation starts after it (operations run one at a time).
Return ==
    /\ last.op # "none"
    /\ last' = [op |-> "none", outcome |-> "none"]
    /\ UNCHANGED <<config, models, store, inflight>>

----------------------------------------------------------------------------
(* Two creates that overlap: the hook awaits the datastore, so another create
   can run between a hook's lookups and the insert that follows it *)

Procs == {"p1", "p2"}

\* the documentId each of the two creates carries in params.data
ProcDocumentId == [p1 |-> "d1", p2 |-> "d2"]

\* a create that has not started
Idle == [pc |-> "idle"]

NoCreates == [p \in Procs |-> Idle]

\* The beforeCreate hook of create p runs: its lookups read the rows stored
\* at this moment. seen is the number of rows the content type held then.
HookCreate(p) ==
    /\ inflight[p].pc = "idle"
    /\ \E uid \in DOMAIN models :
       \E vals \in [Range(models[uid]) -> InputValues] :
       \E cands \in [Range(models[uid]) -> [1..config.maxRetryAttempts -> GenPool]] :
       \E r \in {beforeCreate(config, models, store, uid, ProcDocumentId[p],
                              Undefined, vals, cands)} :
           inflight' = [inflight EXCEPT ![p] =
                          IF r.threw
                          THEN [pc |-> "failed"]
                          ELSE [pc |-> "insert", uid |-> uid,
                                supplied |-> vals, data |-> r.data,
                                branch |-> r.branch,
                                seen |-> Len(store[uid])]]
    /\ UNCHANGED <<config, models, store, last>>

\* The insert of create p, whose hook returned earlier, reaches the datastore.
InsertCreate(p) ==
    /\ inflight[p].pc = "insert"
    /\ store' = InsertRow(store, inflight[p].uid, ProcDocumentId[p], inflight[p].data)
    /\ inflight' = [inflight EXCEPT ![p].pc = "done"]
    /\ UNCHANGED <<config, models, last>>

----------------------------------------------------------------------------
(* Auto-migration at startup: bootstrap.js *)

\* runMigration({dryRun: false}): every fix option at its default
FullLive ==
    [dryRun |-> FALSE, fixEmpty |-> TRUE, fixInvalid |-> TRUE,
     fixDuplicates |-> TRUE]

\* what bootstrap leaves in flight beside the creates: the setImmediate
\* callback when autoMigrate is set and a content type is monitored
AfterBootstrap(cfg, mdl) ==
    NoCreates @@ ("autoMigrate" :>
        [pc |-> IF cfg.autoMigrate /\ DOMAIN mdl # {} THEN "scheduled" ELSE "off"])

\* a callback that asks for a dry run
AutoMigrate_DryRun ==
    /\ inflight.autoMigrate.pc = "scheduled"
    /\ \E gens \in [1..MigrationCalls(checkMigrationStatus(models, store), FullLive, 1)
                       -> GenPool] :
       \E r \in {runMigration(config, models, store,
                              [FullLive EXCEPT !.dryRun = TRUE], gens)} :
          /\ store' = r.st
          /\ last' = [op |-> "autoMigrate", outcome |-> "ok", generated |-> gens,
                      fixed |-> r.fixed, errors |-> r.errors, changes |-> r.changes]
          /\ inflight' = [inflight EXCEPT !.autoMigrate = [pc |-> "done"]]
    /\ UNCHANGED <<config, models>>

\* The setImmediate callback runs: checkMigrationStatus, then a live
\* runMigration when the status needs one; anything thrown on the way (the
\* first disjunct: a throw before the first write, every later one being
\* caught inside the services) is caught and logged.
AutoMigrate ==
    /\ inflight.autoMigrate.pc = "scheduled"
    /\ UNCHANGED <<config, models>>
    /\ \/ /\ inflight' = [inflight EXCEPT !.autoMigrate = [pc |-> "failed"]]
          /\ store' = store
          /\ last' = [op |-> "autoMigrate", outcome |-> "failed",
                      generated |-> <<>>,
                      fixed |-> [empty |-> 0, invalid |-> 0, duplicates |-> 0],
                      errors |-> <<>>, changes |-> <<>>]
       \/ /\ inflight' = [inflight EXCEPT !.autoMigrate = [pc |-> "done"]]
          /\ \E status \in {checkMigrationStatus(models, store)} :
                IF ~status.needsMigration
                THEN /\ store' = store
                     /\ last' = [op |-> "autoMigrate", outcome |-> "notNeeded",
                                 generated |-> <<>>,
                                 fixed |-> [empty |-> 0, invalid |-> 0, duplicates |-> 0],
                                 errors |-> <<>>, changes |-> <<>>]
                ELSE \E gens \in [1..MigrationCalls(status, FullLive, 1) -> GenPool] :
                     \E r \in {runMigration(config, models, store, FullLive, gens)} :
                        /\ store' = r.st
                        /\ last' = [op |-> "autoMigrate", outcome |-> "ok",
                                    generated |-> gens, fixed |-> r.fixed,
                                    errors |-> r.errors, changes |-> r.changes]

----------------------------------------------------------------------------
(* The configuration validator of the plugin *)

\* JavaScript values a user configuration can carry, each with its typeof;
\* a number is kept as twice its value, so that 1.5 can be told from 1 and 2
JsUndefined == [type |-> "undefined"]
JsNull == [type |-> "object"]
JsString(s) == [type |-> "string", str |-> s]
JsBoolean(b) == [type |-> "boolean", bool |-> b]
JsNumber(twice) == [type |-> "number", nan |-> FALSE, twice |-> twice]
JsNaN == [type |-> "number", nan |-> TRUE, twice |-> 0]

\* the value in a condition: if (x), x && ...
Truthy(x) ==
    IF x.type = "string" THEN x.str # ""
    ELSE IF x.type = "boolean" THEN x.bool
    ELSE IF x.type = "number" THEN ~x.nan /\ x.twice # 0
    ELSE FALSE

\* x < 1 for a number x; false for NaN
LessThanOne(x) == ~x.nan /\ x.twice < 2

booleanOptions == <<"autoGenerate", "validateUniqueness", "allowManualEdit", "autoMigrate">>

\* validator(config): the option whose check throws, "ok" when none does
validator(cfg) ==
    IF Truthy(cfg.defaultVersion)
       /\ cfg.defaultVersion \notin {JsString("v4"), JsString("v7")}
    THEN "defaultVersion"
    ELSE IF cfg.maxRetryAttempts # JsUndefined
            /\ (\/ cfg.maxRetryAttempts.type # "number"
                \/ LessThanOne(cfg.maxRetryAttempts))
    THEN "maxRetryAttempts"
    ELSE IF Truthy(cfg.logLevel)
            /\ cfg.logLevel \notin {JsString("debug"), JsString("info"),
                                    JsString("warn"), JsString("error")}
    THEN "logLevel"
    ELSE LET bad == {k \in DOMAIN booleanOptions :
                       /\ cfg[booleanOptions[k]] # JsUndefined
                       /\ cfg[booleanOptions[k]].type # "boolean"}
         IN IF bad # {} THEN booleanOptions[Min(bad)] ELSE "ok"

\* the plugin loader hands the user's configuration to the validator
ValidateConfig ==
    /\ last.op = "none"
    /\ last' = [op |-> "validator",
                outcome |-> IF validator(config) = "ok" THEN "ok" ELSE "Error",
                option |-> validator(config)]
    /\ UNCHANGED <<config, models, store, inflight>>

----------------------------------------------------------------------------
(* Properties of the write-time guard *)

\* the documentIds of the rows that hold value v in field of uid
Holders(st, uid, field, v) ==
    {st[uid][i].documentId : i \in {j \in DOMAIN st[uid] : st[uid][j].vals[field] = v}}

\* no two rows with distinct documentIds hold the same non-empty value in
\* one monitored field
NoDuplicates(mdl, st) ==
    \A uid \in DOMAIN mdl : \A f \in Range(mdl[uid]) : \A i, j \in DOMAIN st[uid] :
        (st[uid][i].documentId # st[uid][j].documentId /\ ~Falsy(st[uid][i].vals[f]))
            => st[uid][i].vals[f] # st[uid][j].vals[f]

\* the monitored fields for which diagnose() reports a duplicate group
DuplicateGroups(mdl, st) ==
    {k \in DOMAIN diagnose(mdl, st) : diagnose(mdl, st)[k].duplicateGroups > 0}

\* a reconciliation that writes
LiveReconcile(l) ==
    \/ (l.op = "runMigration" /\ ~l.options.dryRun)
    \/ (l.op = "autofix" /\ ~l.dryRun)

\* the monitored fields a create or update result speaks of
FieldsOf(l) == DOMAIN l.supplied

\* C1: with validateUniqueness enabled, a create, update or live
\* reconciliation that completes on a store without duplicates leaves a store
\* without duplicates: no two distinct documentIds hold the same non-empty
\* value in one monitored field.
C1_UniquenessPreserved ==
    [][(/\ config.validateUniqueness
        /\ last'.outcome = "ok"
        /\ (last'.op \in {"create", "update"} \/ LiveReconcile(last'))
        /\ NoDuplicates(models, store))
       => NoDuplicates(models, store')]_vars

\* C2 as stated: on create with validateUniqueness enabled, a valid supplied
\* value held by some record whose documentId differs from the documentId of
\* the incoming write is replaced by a generated value.
C2_ReplacedWhenHeldByAnother ==
    [][\A f \in Range(models.article) :
        (/\ last'.op = "create"
         /\ config.validateUniqueness
         /\ validateUuid(last'.supplied[f])
         /\ ~Falsy(last'.currentDocumentId)
         /\ \E d \in Holders(store, last'.uid, f, last'.supplied[f]) :
                d # last'.currentDocumentId)
        => last'.branch[f] = "regenerate"]_vars

\* C2 amended: on create with validateUniqueness enabled, a valid supplied
\* value held only by records whose documentId differs from the documentId
\* of the incoming write is replaced by the value generateUniqueUuid returns:
\* the committed value differs from the supplied one and no record held it;
\* if the retries are exhausted the create fails and nothing is stored.
C2_ReplacedWhenHeldOnlyByOthers ==
    [][\A f \in Range(models.article) :
        (/\ last'.op = "create"
         /\ config.validateUniqueness
         /\ validateUuid(last'.supplied[f])
         /\ ~Falsy(last'.currentDocumentId)
         /\ Holders(store, last'.uid, f, last'.supplied[f]) # {}
         /\ last'.currentDocumentId \notin
                Holders(store, last'.uid, f, last'.supplied[f]))
        => /\ last'.branch[f] = "regenerate"
           /\ Len(last'.tried[f]) \in 1..config.maxRetryAttempts
           /\ last'.outcome = "ok" =>
                /\ last'.data[f] = last'.tried[f][Len(last'.tried[f])]
                /\ last'.data[f] # last'.supplied[f]
                /\ Holders(store, last'.uid, f, last'.data[f]) = {}
                /\ store'[last'.uid][Len(store'[last'.uid])].vals[f] = last'.data[f]
           /\ last'.outcome # "ok" =>
                /\ last'.outcome = "ApplicationError"
                /\ store' = store]_vars

\* C2 witness: a create whose supplied value another document held was
\* committed with a regenerated value.
C2_Witness ==
    /\ last.op = "create" /\ last.outcome = "ok" /\ config.validateUniqueness
    /\ \E f \in FieldsOf(last) :
        last.branch[f] = "regenerate" /\ last.data[f] # last.supplied[f]

C4_BoundedRetryThenAbort ==
    [][last'.op = "create" =>
        /\ \A f \in FieldsOf(last') :
            Len(last'.tried[f]) <= config.maxRetryAttempts
        /\ last'.outcome \in {"ok", "ApplicationError"}
        /\ last'.outcome = "ApplicationError" <=>
            \E f \in FieldsOf(last') :
                /\ last'.branch[f] \in {"generate", "regenerate"}
                /\ config.validateUniqueness
                /\ Len(last'.tried[f]) = config.maxRetryAttempts
                /\ \A k \in DOMAIN last'.tried[f] :
                    Holders(store, last'.uid, f, last'.tried[f][k]) # {}
        /\ last'.outcome = "ApplicationError" => store' = store]_vars

\* C4 witness: with maxRetryAttempts = 1 a single colliding candidate made
\* the create fail.
C4_Witness ==
    /\ last.op = "create" /\ last.outcome = "ApplicationError"
    /\ config.maxRetryAttempts = 1
    /\ \E f \in FieldsOf(last) : Len(last.tried[f]) = 1

\* C5: with validateUniqueness enabled, the value a completed create took
\* from generateUniqueUuid is the last candidate tried, no record held it, and
\* every candidate tried before it was held.
C5_GeneratedValueAbsent ==
    [][\A f \in Range(models.article) :
        (/\ last'.op = "create"
         /\ last'.outcome = "ok"
         /\ config.validateUniqueness
         /\ last'.branch[f] \in {"generate", "regenerate"})
        => /\ last'.tried[f] # <<>>
           /\ last'.data[f] = last'.tried[f][Len(last'.tried[f])]
           /\ Holders(store, last'.uid, f, last'.data[f]) = {}
           /\ \A k \in 1..(Len(last'.tried[f]) - 1) :
                Holders(store, last'.uid, f, last'.tried[f][k]) # {}]_vars

\* C5 witness: a create used up its whole retry budget and the last
\* candidate, found absent, was returned.
C5_Witness ==
    /\ last.op = "create" /\ last.outcome = "ok" /\ config.validateUniqueness
    /\ config.maxRetryAttempts > 1
    /\ \E f \in FieldsOf(last) :
        /\ last.branch[f] = "generate"
        /\ Len(last.tried[f]) = config.maxRetryAttempts

\* C6: with autoGenerate enabled, a create whose supplied value is absent,
\* empty or malformed either stores a generated value that passes format
\* validation or fails with generation exhaustion; the supplied value is
\* never stored.
C6_EmptyOrInvalidIsGenerated ==
    \A f \in Range(models.article) :
        (/\ last.op = "create"
         /\ config.autoGenerate
         /\ (Falsy(last.supplied[f]) \/ ~validateUuid(last.supplied[f])))
        => /\ last.branch[f] = "generate"
           /\ last.outcome = "ok" =>
                /\ validateUuid(store[last.uid][Len(store[last.uid])].vals[f])
                /\ store[last.uid][Len(store[last.uid])].vals[f] \in Range(last.tried[f])
                /\ store[last.uid][Len(store[last.uid])].documentId = last.documentId
           /\ last.outcome # "ok" => last.outcome = "ApplicationError"

\* C6 witness: a create that supplied a malformed value stored a generated
\* one.
C6_Witness ==
    /\ last.op = "create" /\ last.outcome = "ok" /\ config.autoGenerate
    /\ \E f \in FieldsOf(last) :
        /\ last.supplied[f] = Malformed
        /\ validateUuid(store[last.uid][Len(store[last.uid])].vals[f])

\* C7: on create, a valid supplied value that a record of the incoming
\* write's documentId already holds is kept: nothing is generated.
C7_SameDocumentKeeps ==
    [][\A f \in Range(models.article) :
        (/\ last'.op = "create"
         /\ validateUuid(last'.supplied[f])
         /\ ~Falsy(last'.currentDocumentId)
         /\ last'.currentDocumentId \in
                Holders(store, last'.uid, f, last'.supplied[f]))
        => /\ last'.outcome = "ok"
           /\ last'.data[f] = last'.supplied[f]
           /\ last'.tried[f] = <<>>]_vars

\* C8: on create, when the write carries no documentId (in data or in where)
\* and some record holds the valid supplied value, the value is kept and the
\* create stores it.
C8_NoDocumentIdKeeps ==
    [][\A f \in Range(models.article) :
        (/\ last'.op = "create"
         /\ validateUuid(last'.supplied[f])
         /\ Falsy(last'.currentDocumentId)
         /\ Holders(store, last'.uid, f, last'.supplied[f]) # {})
        => /\ last'.outcome = "ok"
           /\ last'.branch[f] \in {"keepNoDocumentId", "unchecked"}
           /\ last'.data[f] = last'.supplied[f]
           /\ last'.tried[f] = <<>>
           /\ Len(store'[last'.uid]) = Len(store[last'.uid]) + 1
           /\ store'[last'.uid][Len(store'[last'.uid])].vals[f] = last'.supplied[f]]_vars

\* C8 witness: a create without documentId stored a value another record
\* holds, the uniqueness check having found it.
C8_Witness ==
    /\ last.op = "create" /\ last.outcome = "ok" /\ config.validateUniqueness
    /\ Falsy(last.currentDocumentId)
    /\ \E f \in FieldsOf(last) :
        /\ last.branch[f] = "keepNoDocumentId"
        /\ Cardinality(Holders(store, last.uid, f, last.supplied[f])) > 1

\* C9: every update that sets a monitored field of a stored row to a
\* malformed value is rejected with a ValidationError that carries the field
\* and the value, and nothing is written.
C9_MalformedUpdateRejected ==
    [][\A f \in Range(models.article) :
        (/\ last'.op = "update"
         /\ last'.target # 0
         /\ ~Falsy(last'.supplied[f])
         /\ ~validateUuid(last'.supplied[f]))
        => /\ last'.outcome = "ValidationError"
           /\ last'.error = [field |-> f, uuid |-> last'.supplied[f]]
           /\ store' = store]_vars

\* C10: with validateUniqueness enabled, every update that sets a monitored
\* field of a stored row to a valid value held by a record with another
\* documentId is rejected with a ValidationError; an update to a value only
\* the row's own documentId holds is not rejected.
C10_DuplicateUpdateRejected ==
    [][\A f \in Range(models.article) :
        (/\ last'.op = "update"
         /\ config.validateUniqueness
         /\ last'.target # 0
         /\ validateUuid(last'.supplied[f]))
        => /\ (\E d \in Holders(store, last'.uid, f, last'.supplied[f]) :
                    d # store[last'.uid][last'.target].documentId)
                => last'.outcome = "ValidationError" /\ store' = store
           /\ Holders(store, last'.uid, f, last'.supplied[f])
                    = {store[last'.uid][last'.target].documentId}
                => last'.outcome = "ok"]_vars

\* C11: an update whose payload omits a monitored field is never rejected
\* on account of that field, asks no uniqueness query about it, and leaves
\* the value every row holds in that field as it was.
C11_OmittedFieldUntouched ==
    [][\A f \in Range(models.article) :
        (last'.op = "update" /\ last'.supplied[f] = Undefined)
        => /\ last'.error.field # f
           /\ last'.pass[f] \in {"continue", "notReached"}
           /\ ~last'.queried[f]
           /\ Len(store'[last'.uid]) = Len(store[last'.uid])
           /\ \A i \in DOMAIN store[last'.uid] :
                store'[last'.uid][i].vals[f] = store[last'.uid][i].vals[f]]_vars

\* C11 witness: an update that resolved its documentId and omitted the field
\* went through, the targeted row holding a value.
C11_Witness ==
    /\ last.op = "update" /\ last.outcome = "ok" /\ last.target # 0
    /\ ~Falsy(last.documentId)
    /\ \E f \in FieldsOf(last) :
        /\ last.supplied[f] = Undefined
        /\ last.pass[f] = "continue"
        /\ ~Falsy(store[last.uid][last.target].vals[f])

\* C12: an update rejected with a ValidationError leaves every row of every
\* content type exactly as it was.
C12_RejectedUpdateWritesNothing ==
    [][(last'.op = "update" /\ last'.outcome = "ValidationError")
        => store' = store]_vars

\* C12 witness: an update of a stored row was rejected because another
\* document holds the value.
C12_Witness ==
    /\ last.op = "update" /\ last.outcome = "ValidationError"
    /\ last.target # 0
    /\ last.reason = "alreadyExists"
    /\ store[last.uid][last.target].vals[last.error.field] # last.error.uuid

\* C13: the insert of a create whose hook has returned stores the payload
\* as the hook left it, whatever other creates committed since the hook's
\* lookups; so two overlapping creates can both pass the uniqueness check
\* before either commits and both commit the same value under different
\* documentIds.
C13_InsertAfterCheckIsUnconditional ==
    [][\A p \in Procs :
        (inflight[p].pc = "insert" /\ inflight'[p].pc = "done")
        => /\ Len(store'[inflight[p].uid]) = Len(store[inflight[p].uid]) + 1
           /\ SubSeq(store'[inflight[p].uid], 1, Len(store[inflight[p].uid]))
                = store[inflight[p].uid]
           /\ store'[inflight[p].uid][Len(store'[inflight[p].uid])] =
                [documentId |-> ProcDocumentId[p],
                 vals |-> [f \in DOMAIN inflight[p].data |->
                            Column(inflight[p].data[f])]]]_vars

\* C13 witness: with validateUniqueness enabled both hooks looked up a value
\* no row held, neither create having committed, and both creates committed
\* it, under different documentIds.
C13_Witness ==
    /\ config.validateUniqueness
    /\ \A p \in Procs : inflight[p].pc = "done"
    /\ inflight["p1"].seen = inflight["p2"].seen
    /\ Len(store.article) = inflight["p1"].seen + 2
    /\ \E f \in Range(models.article) :
        /\ validateUuid(inflight["p1"].data[f])
        /\ inflight["p1"].data[f] = inflight["p2"].data[f]
        /\ \A p \in Procs : inflight[p].branch[f] \in {"absent", "generate"}
        /\ \A i \in 1..inflight["p1"].seen :
            store.article[i].vals[f] # inflight["p1"].data[f]
        /\ store.article[Len(store.article)].vals[f]
            = store.article[Len(store.article) - 1].vals[f]
        /\ store.article[Len(store.article)].documentId
            # store.article[Len(store.article) - 1].documentId
        /\ ~NoDuplicates(models, store)

\* C14: every duplicate group diagnose() reports, and every 'duplicate'
\* issue checkMigrationStatus reports, lists at least two distinct
\* documentIds; rows that share documentId and value form no group.
C14_GroupsHaveDistinctDocuments ==
    /\ last.op = "diagnose" =>
        \A k \in DOMAIN last.report :
        \A g \in DOMAIN last.report[k].duplicates :
            Cardinality(Range(last.report[k].duplicates[g].documentIds)) >= 2
    /\ last.op = "checkMigrationStatus" =>
        \A k \in DOMAIN last.report.contentTypes :
        \A g \in DOMAIN last.report.contentTypes[k].duplicates :
            Cardinality(Range(last.report.contentTypes[k].duplicates[g].documentIds)) >= 2

\* a live run that fixes duplicates and nothing else
LiveDuplicateFix(l) ==
    \/ (l.op = "autofix" /\ ~l.dryRun)
    \/ (l.op = "runMigration" /\ ~l.options.dryRun /\ l.options.fixDuplicates
            /\ ~l.options.fixEmpty /\ ~l.options.fixInvalid)

\* the rows of document d that hold value v in field of uid
RowsHolding(st, uid, field, d, v) ==
    {i \in DOMAIN st[uid] : st[uid][i].documentId = d /\ st[uid][i].vals[field] = v}

\* C15: in a live duplicate fix, for every duplicate group (of distinct
\* documents) the first documentId in scan order keeps its value, and every
\* other member ends with a generated value that differs from the group's
\* and that no other document holds.
C15_DuplicateFixKeepsFirstReassignsRest ==
    [][LiveDuplicateFix(last') =>
        \A f \in Range(models.article) :
        \A g \in Range(findDuplicatesForField(store, "article", f)) :
            Cardinality(Range(g.documentIds)) = g.count =>
                /\ \A i \in RowsHolding(store, "article", f, g.documentIds[1], g.uuid) :
                        store'.article[i].vals[f] = g.uuid
                /\ \A m \in 2..g.count :
                   \A i \in RowsHolding(store, "article", f, g.documentIds[m], g.uuid) :
                        /\ store'.article[i].vals[f] # g.uuid
                        /\ validateUuid(store'.article[i].vals[f])
                        /\ Holders(store', "article", f, store'.article[i].vals[f])
                                = {g.documentIds[m]}]_vars

\* C15, first half alone: the first documentId of every group keeps its value
C15_FirstMemberKeeps ==
    [][LiveDuplicateFix(last') =>
        \A f \in Range(models.article) :
        \A g \in Range(findDuplicatesForField(store, "article", f)) :
            Cardinality(Range(g.documentIds)) = g.count =>
                \A i \in RowsHolding(store, "article", f, g.documentIds[1], g.uuid) :
                        store'.article[i].vals[f] = g.uuid]_vars

\* C16: from the same store, with the same options but for dryRun and the
\* same generated values, runMigration produces the same change-log dry and
\* live.
C16_DryAndLiveChangeLogsAgree ==
    [][last'.op = "runMigration" =>
        runMigration(config, models, store,
                     [last'.options EXCEPT !.dryRun = ~@],
                     last'.generated).changes = last'.changes]_vars

\* the reconciliation calls that take a dryRun option
DryRunOf(l) ==
    IF l.op = "runMigration" THEN l.options.dryRun
    ELSE IF l.op \in {"autofix", "generateMissing", "importMappings"} THEN l.dryRun
    ELSE FALSE

\* C17: with dryRun true, runMigration, autofix, generateMissing and
\* importMappings leave every stored row as it was, whatever their other
\* options.
C17_DryRunWritesNothing ==
    [][DryRunOf(last') => store' = store]_vars

\* C17 witness: a dry autofix found a duplicate to fix and logged the change.
C17_Witness ==
    /\ last.op = "autofix" /\ last.dryRun
    /\ last.totalFixed > 0
    /\ Len(last.changes) > 0
    /\ ~NoDuplicates(models, store)

\* C20: importing, with overwrite false, the snapshot exportMappings gives
\* for the present store imports nothing, logs no change, counts every entry
\* as skipped and leaves the store as it was, dry and live.
C20_ReimportOfExportIsNoOp ==
    [][(/\ last'.op = "importMappings"
        /\ ~last'.overwrite
        /\ last'.importData = exportMappings(models, store))
       => /\ last'.imported = 0
          /\ last'.changes = <<>>
          /\ last'.errors = <<>>
          /\ \A k \in DOMAIN last'.importData :
                Len(last'.importData[k].entries) <= last'.skipped
          /\ store' = store]_vars

\* C18: in a live runMigration every record selected for fixing is
\* processed (it has its entry in the change-log) even when the write for
\* another record fails, and every failed write has its entry in the errors
\* list; in the empty, invalid and duplicate categories alike.
C18_FailedWriteDoesNotStopTheRun ==
    [][(last'.op = "runMigration" /\ ~last'.options.dryRun) =>
        /\ Len(last'.changes) =
             MigrationCalls(checkMigrationStatus(models, store), last'.options, 1)
        /\ Len(last'.errors) + last'.fixed.empty + last'.fixed.invalid
                + last'.fixed.duplicates = Len(last'.changes)]_vars

\* C18 without the empty category: invalid and duplicate fixes go on after a
\* failed write
C18_InvalidAndDuplicateFixesGoOn ==
    [][(last'.op = "runMigration" /\ ~last'.options.dryRun
            /\ ~last'.options.fixEmpty) =>
        /\ Len(last'.changes) =
             MigrationCalls(checkMigrationStatus(models, store), last'.options, 1)
        /\ Len(last'.errors) + last'.fixed.invalid + last'.fixed.duplicates
                = Len(last'.changes)]_vars

\* C19: after a live runMigration with fixEmpty and fixInvalid in which no
\* write failed, every row holds, in every monitored field, a non-empty value
\* that passes format validation.
C19_MigrationLeavesValidValues ==
    (/\ last.op = "runMigration"
     /\ ~last.options.dryRun
     /\ last.options.fixEmpty
     /\ last.options.fixInvalid
     /\ last.errors = <<>>)
    => \A uid \in DOMAIN models : \A f \in Range(models[uid]) :
       \A i \in DOMAIN store[uid] :
            ~Falsy(store[uid][i].vals[f]) /\ validateUuid(store[uid][i].vals[f])

\* C19 witness: a live run fixed an empty and a malformed value, no write
\* having failed.
C19_Witness ==
    /\ last.op = "runMigration" /\ ~last.options.dryRun
    /\ last.options.fixEmpty /\ last.options.fixInvalid
    /\ last.errors = <<>>
    /\ last.fixed.empty > 0 /\ last.fixed.invalid > 0

\* C20 on a store in which every document has one row: the re-import is a
\* no-op
C20_ReimportOfExportOneRowPerDocument ==
    [][(/\ last'.op = "importMappings"
        /\ ~last'.overwrite
        /\ last'.importData = exportMappings(models, store)
        /\ \A i, j \in DOMAIN store.article :
              store.article[i].documentId = store.article[j].documentId => i = j)
       => /\ last'.imported = 0
          /\ last'.changes = <<>>
          /\ last'.errors = <<>>
          /\ \A k \in DOMAIN last'.importData :
                Len(last'.importData[k].entries) = last'.skipped
          /\ store' = store]_vars

\* C21: during importMappings an entry whose documentId matches no record of
\* the content type is skipped and recorded in the errors list, produces no
\* write and no change-log entry, and does not stop the import: the run ends
\* as the import of the remaining entries ends, with one more skip and one
\* more "not found" error per such entry.
C21_UnknownEntrySkippedImportGoesOn ==
    [][(last.op = "none" /\ last'.op = "importMappings"
        /\ last'.importData # NoMappings /\ Len(last'.importData) = 1) =>
          LET f == last'.importData[1]
              Unknown(e) == /\ ~Falsy(e.documentId) /\ ~Falsy(e.uuid)
                            /\ \A i \in DOMAIN store[f.uid] :
                                  store[f.uid][i].documentId # e.documentId
              Other(e) == ~Unknown(e)
              IsNotFound(x) == x.kind = "notFound"
              IsOtherError(x) == x.kind # "notFound"
              unknown == SelectSeq(f.entries, Unknown)
              notFound == SelectSeq(last'.errors, IsNotFound)
              r == importMappings(config, models, store,
                                  <<[f EXCEPT !.entries = SelectSeq(f.entries, Other)]>>,
                                  last'.dryRun, last'.overwrite)
          IN /\ store' = r.st
             /\ last'.changes = r.changes
             /\ last'.imported = r.imported
             /\ last'.skipped = r.skipped + Len(unknown)
             /\ Len(notFound) = Len(unknown)
             /\ \A k \in DOMAIN unknown :
                   /\ notFound[k].documentId = unknown[k].documentId
                   /\ \A c \in DOMAIN last'.changes :
                         last'.changes[c].documentId # unknown[k].documentId
             /\ SelectSeq(last'.errors, IsOtherError) = r.errors]_vars

\* a live import whose first entry names no record and whose second entry was
\* written
C21_Witness ==
    /\ last.op = "importMappings" /\ ~last.dryRun
    /\ last.importData # NoMappings
    /\ Len(last.importData[1].entries) = 2
    /\ \A i \in DOMAIN store.article :
          store.article[i].documentId # last.importData[1].entries[1].documentId
    /\ last.imported = 1
    /\ Len(last.errors) = 1 /\ last.errors[1].kind = "notFound"
    /\ \E i \in DOMAIN store.article :
          /\ store.article[i].documentId = last.importData[1].entries[2].documentId
          /\ store.article[i].vals.uuid = last.importData[1].entries[2].uuid

\* the import steps of a snapshot with a single entry whose record exists
ImportOfOneKnownEntry(l, st) ==
    /\ l.op = "importMappings" /\ l.importData # NoMappings
    /\ Len(l.importData) = 1 /\ Len(l.importData[1].entries) = 1
    /\ ~Falsy(l.importData[1].entries[1].documentId)
    /\ ~Falsy(l.importData[1].entries[1].uuid)
    /\ \E i \in DOMAIN st[l.importData[1].uid] :
          st[l.importData[1].uid][i].documentId = l.importData[1].entries[1].documentId

\* C22: during importMappings, for an entry whose record exists: if the
\* field holds a non-empty value and overwrite is false the entry is skipped
\* without an error and without a change-log entry; otherwise the change
\* {oldValue = current value, newValue = snapshot value} is logged and, in a
\* live run, written.
C22_KnownEntrySkippedOrWritten ==
    [][(last.op = "none" /\ ImportOfOneKnownEntry(last', store)) =>
          LET f == last'.importData[1]
              e == f.entries[1]
              rows == {i \in DOMAIN store[f.uid] :
                         store[f.uid][i].documentId = e.documentId}
              cur == store[f.uid][Min(rows)].vals[f.field]
          IN IF ~Falsy(cur) /\ ~last'.overwrite
             THEN /\ last'.skipped = 1 /\ last'.imported = 0
                  /\ last'.errors = <<>> /\ last'.changes = <<>>
                  /\ store' = store
             ELSE /\ last'.skipped = 0
                  /\ last'.changes = <<[uid |-> f.uid, field |-> f.field,
                                        documentId |-> e.documentId,
                                        oldValue |-> cur, newValue |-> e.uuid]>>
                  /\ last'.dryRun => store' = store
                  /\ ~last'.dryRun =>
                        \A i \in rows : store'[f.uid][i].vals[f.field] = e.uuid]_vars

\* what holds of the same entry: the skip is as stated, the change is logged
\* as stated, and a live run writes it exactly when the update guard lets the
\* write through; a rejected write is logged as a change and as an error
C22_KnownEntryWrittenUnlessRejected ==
    [][(last.op = "none" /\ ImportOfOneKnownEntry(last', store)) =>
          LET f == last'.importData[1]
              e == f.entries[1]
              rows == {i \in DOMAIN store[f.uid] :
                         store[f.uid][i].documentId = e.documentId}
              cur == store[f.uid][Min(rows)].vals[f.field]
          IN IF ~Falsy(cur) /\ ~last'.overwrite
             THEN /\ last'.skipped = 1 /\ last'.imported = 0
                  /\ last'.errors = <<>> /\ last'.changes = <<>>
                  /\ store' = store
             ELSE /\ last'.skipped = 0
                  /\ last'.changes = <<[uid |-> f.uid, field |-> f.field,
                                        documentId |-> e.documentId,
                                        oldValue |-> cur, newValue |-> e.uuid]>>
                  /\ last'.dryRun => store' = store /\ last'.imported = 1
                  /\ (~last'.dryRun /\ last'.errors = <<>>) =>
                        /\ last'.imported = 1
                        /\ \A i \in rows : store'[f.uid][i].vals[f.field] = e.uuid
                  /\ (~last'.dryRun /\ last'.errors # <<>>) =>
                        /\ last'.imported = 0
                        /\ store' = store]_vars

\* C23: for any snapshot (one that lists a documentId more than once
\* included), the same starting state and the same overwrite option, a live
\* importMappings produces the change-log and the imported / skipped counts
\* of the dry run; only the persisted state differs.
C23_DryAndLiveImportsAgree ==
    [][(last.op = "none" /\ last'.op = "importMappings" /\ ~last'.dryRun) =>
          LET dry == importMappings(config, models, store, last'.importData,
                                    TRUE, last'.overwrite)
          IN /\ dry.st = store
             /\ last'.changes = dry.changes
             /\ last'.imported = dry.imported
             /\ last'.skipped = dry.skipped]_vars

\* what holds: the two runs agree when the update guard lets every write
\* through and no documentId is listed twice
C23_AgreeWithoutRejectionOrRepeats ==
    [][(/\ last.op = "none" /\ last'.op = "importMappings" /\ ~last'.dryRun
        /\ last'.errors = <<>>
        /\ \A k \in DOMAIN last'.importData :
           \A i, j \in DOMAIN last'.importData[k].entries :
              i # j => last'.importData[k].entries[i].documentId
                          # last'.importData[k].entries[j].documentId) =>
          LET dry == importMappings(config, models, store, last'.importData,
                                    TRUE, last'.overwrite)
          IN /\ dry.st = store
             /\ last'.changes = dry.changes
             /\ last'.imported = dry.imported
             /\ last'.skipped = dry.skipped]_vars

\* a documentId listed twice with the guard's uniqueness check disabled: the
\* live run skips the second entry, which the dry run counts as imported
C23_RepeatedDocumentIdDiverges ==
    /\ last.op = "importMappings" /\ ~last.dryRun /\ ~last.overwrite
    /\ ~config.validateUniqueness
    /\ last.importData # NoMappings
    /\ Len(last.importData[1].entries) = 2
    /\ last.importData[1].entries[1].documentId = last.importData[1].entries[2].documentId
    /\ \A k \in 1..2 : ~Falsy(last.importData[1].entries[k].uuid)
    /\ last.imported = 1 /\ last.skipped = 1 /\ last.errors = <<>>
    /\ Len(last.changes) = 1

\* C24: on a monitored field configured with a prefix p, every value the
\* create guard and generateMissing generate is p followed by a well-formed
\* identifier, and a supplied value of that form is treated as valid: the
\* create guard stores it instead of generating another.
C24_PrefixedGenerationAndValidity ==
    /\ (last.op = "create" /\ last.outcome = "ok") =>
          \A f \in Range(models[last.uid]) :
             LET stored == store[last.uid][Len(store[last.uid])].vals[f]
             IN /\ last.branch[f] \in {"generate", "regenerate"} =>
                      stored \in PrefixedValues
                /\ last.supplied[f] \in PrefixedValues =>
                      /\ last.branch[f] # "generate"
                      /\ last.branch[f] # "regenerate" => stored = last.supplied[f]
    /\ last.op = "generateMissing" =>
          \A k \in DOMAIN last.changes : last.changes[k].newUuid \in PrefixedValues

\* a create that supplied a prefixed identifier with autoGenerate enabled
\* stored a bare generated identifier in its place
C24_PrefixedValueRegenerated ==
    /\ last.op = "create" /\ last.outcome = "ok" /\ config.autoGenerate
    /\ last.supplied.uuid \in PrefixedValues
    /\ store.article[Len(store.article)].vals.uuid \in GenPool

\* C25: with validateUniqueness disabled, checkUuidExists answers
\* exists = false whatever the datastore holds, generateUniqueUuid returns
\* its first candidate, a create is never reassigned and never fails, and an
\* update is never rejected for a collision and asks no uniqueness question.
C25_UniquenessDisabledNeverCollides ==
    ~config.validateUniqueness =>
       /\ \A uid \in DOMAIN models : \A f \in Range(models[uid]) :
             /\ \A v \in StoredValues : \A ex \in DocIds \cup {Null} :
                   checkUuidExists(config, store, uid, f, v, ex)
                      = [exists |-> FALSE, documentId |-> Null]
             /\ \A cands \in [1..config.maxRetryAttempts -> GenPool] :
                   generateUniqueUuid(config, store, uid, f, cands)
                      = [threw |-> FALSE, value |-> cands[1], tried |-> <<cands[1]>>]
       /\ last.op = "create" =>
             /\ last.outcome = "ok"
             /\ \A f \in Range(models[last.uid]) :
                   LET stored == store[last.uid][Len(store[last.uid])].vals[f]
                   IN /\ last.branch[f] \in {"generate", "unchecked"}
                      /\ last.branch[f] = "unchecked" => stored = Column(last.supplied[f])
                      /\ last.branch[f] = "generate" => stored = last.tried[f][1]
       /\ last.op = "update" =>
             /\ last.reason # "alreadyExists"
             /\ \A f \in Range(models[last.uid]) : ~last.queried[f]

\* C25 witness: with the check disabled, a create stored the value it
\* supplied although a row of another document holds it.
C25_Witness ==
    /\ ~config.validateUniqueness
    /\ last.op = "create" /\ last.outcome = "ok"
    /\ validateUuid(last.supplied.uuid)
    /\ store.article[Len(store.article)].vals.uuid = last.supplied.uuid
    /\ \E i \in 1..(Len(store.article) - 1) :
          /\ store.article[i].vals.uuid = last.supplied.uuid
          /\ store.article[i].documentId # last.documentId

\* the value is held by some row in another monitored field of the content
\* type or by some row of another content type
HeldElsewhere(mdl, st, uid, field, v) ==
    \E u \in DOMAIN mdl : \E f \in Range(mdl[u]) :
       /\ <<u, f>> # <<uid, field>>
       /\ \E i \in DOMAIN st[u] : st[u][i].vals[f] = v

\* C26: uniqueness is scoped to one (content type, field) pair: a create or
\* an update that supplies a valid value held only by rows of another
\* content type, or only in another monitored field of the same content
\* type, is neither reassigned nor rejected for it, and diagnose reports as a
\* group only rows of one content type that hold the value in one field.
C26_UniquenessScopedToTypeAndField ==
    [][/\ (last.op = "none" /\ last'.op = "create") =>
            \A f \in Range(models[last'.uid]) :
               (/\ validateUuid(last'.supplied[f])
                /\ \A i \in DOMAIN store[last'.uid] :
                      store[last'.uid][i].vals[f] # last'.supplied[f]
                /\ HeldElsewhere(models, store, last'.uid, f, last'.supplied[f]))
               => /\ last'.branch[f] \in {"absent", "unchecked", "notReached"}
                  /\ last'.outcome = "ok" =>
                        store'[last'.uid][Len(store'[last'.uid])].vals[f]
                           = last'.supplied[f]
       /\ (last.op = "none" /\ last'.op = "update") =>
            \A f \in Range(models[last'.uid]) :
               (/\ validateUuid(last'.supplied[f])
                /\ \A i \in DOMAIN store[last'.uid] :
                      store[last'.uid][i].vals[f] # last'.supplied[f]
                /\ HeldElsewhere(models, store, last'.uid, f, last'.supplied[f]))
               => /\ last'.pass[f] \in {"pass", "notReached"}
                  /\ last'.error.field # f
                  /\ (last'.outcome = "ok" /\ last'.target # 0) =>
                        store'[last'.uid][last'.target].vals[f] = last'.supplied[f]
       /\ (last.op = "none" /\ last'.op = "diagnose") =>
            \A k \in DOMAIN last'.report :
            \A g \in DOMAIN last'.report[k].duplicates :
               LET r == last'.report[k]
               IN r.duplicates[g].count
                    = Cardinality({i \in DOMAIN store[r.uid] :
                                     store[r.uid][i].vals[r.field] = r.duplicates[g].uuid})
      ]_vars

\* C26 witness: with the uniqueness check enabled, a create of an article
\* stored the value it supplied for uuid although an article holds it in ref
\* and a page holds it in uuid.
C26_Witness ==
    /\ config.validateUniqueness
    /\ last.op = "create" /\ last.outcome = "ok" /\ last.uid = "article"
    /\ validateUuid(last.supplied.uuid)
    /\ last.branch.uuid = "absent"
    /\ store.article[Len(store.article)].vals.uuid = last.supplied.uuid
    /\ \E i \in 1..(Len(store.article) - 1) :
          store.article[i].vals.ref = last.supplied.uuid
    /\ \E i \in DOMAIN store.page : store.page[i].vals.uuid = last.supplied.uuid

\* C27: diagnose, checkMigrationStatus, exportMappings and checkDuplicate
\* are read-only: every row of every content type is the same after the call
\* as before it.
C27_ReadOnlyCalls ==
    [][(last'.op \in {"diagnose", "checkMigrationStatus", "exportMappings",
                      "checkDuplicate"})
          => store' = store]_vars

\* C27 witness: checkDuplicate found the value on a stored row, which still
\* holds it.
C27_Witness ==
    /\ last.op = "checkDuplicate" /\ last.outcome = "ok"
    /\ last.result.exists
    /\ \E i \in DOMAIN store[last.contentType] :
          store[last.contentType][i].vals[last.field] = last.uuid

\* C28: when autoMigrate is true and a content type is monitored, the
\* callback scheduled by bootstrap runs one full live reconciliation, once,
\* after bootstrap has returned; when autoMigrate is false (or nothing is
\* monitored) no reconciliation writes at startup; a failure of the callback
\* writes nothing, is recorded, and leaves the hooks in place: the creates
\* that follow it still pass through beforeCreate.
C28_AutoMigrationOnceAfterBootstrap ==
    /\ [][/\ (inflight'.autoMigrate # inflight.autoMigrate) =>
               /\ config.autoMigrate /\ DOMAIN models # {}
               /\ inflight.autoMigrate.pc = "scheduled"
               /\ inflight'.autoMigrate.pc \in {"done", "failed"}
               /\ last'.op = "autoMigrate"
               /\ inflight'.autoMigrate.pc = "done" =>
                     \E gens \in [1..MigrationCalls(checkMigrationStatus(models, store),
                                                    FullLive, 1) -> GenPool] :
                        store' = runMigration(config, models, store, FullLive, gens).st
               /\ inflight'.autoMigrate.pc = "failed" =>
                     store' = store /\ last'.outcome = "failed"
          /\ (~config.autoMigrate \/ DOMAIN models = {}) =>
               /\ last'.op # "autoMigrate"
               /\ store' # store => last'.op = "create"
          /\ inflight.autoMigrate.pc = "failed" =>
               /\ models' = models
               /\ last'.op = "create" =>
                     \E docs \in CreateDocs :
                     \E cands \in [Range(models[last'.uid]) ->
                                     [1..config.maxRetryAttempts -> GenPool]] :
                        LET r == beforeCreate(config, models, store, last'.uid,
                                              docs[1], docs[2], last'.supplied, cands)
                        IN /\ last'.data = r.data
                           /\ last'.branch = r.branch]_vars
    /\ (inflight.autoMigrate.pc = "scheduled")
          ~> (inflight.autoMigrate.pc \in {"done", "failed"})

\* C28 witness: the callback ran after bootstrap and its live run fixed rows.
C28_Witness ==
    /\ config.autoMigrate
    /\ inflight.autoMigrate.pc = "done"
    /\ last.op = "autoMigrate" /\ last.outcome = "ok"
    /\ Len(last.changes) > 0
    /\ checkMigrationStatus(models, store).needsMigration = FALSE

\* the first option for which the configuration supplies a value that is not
\* of the allowed form ("ok": none)
DisallowedOption(cfg) ==
    IF cfg.defaultVersion # JsUndefined
       /\ cfg.defaultVersion \notin {JsString("v4"), JsString("v7")}
    THEN "defaultVersion"
    ELSE IF cfg.maxRetryAttempts # JsUndefined
            /\ (\/ cfg.maxRetryAttempts.type # "number"
                \/ cfg.maxRetryAttempts.nan
                \/ cfg.maxRetryAttempts.twice < 2
                \/ cfg.maxRetryAttempts.twice % 2 # 0)
    THEN "maxRetryAttempts"
    ELSE IF cfg.logLevel # JsUndefined
            /\ cfg.logLevel \notin {JsString("debug"), JsString("info"),
                                    JsString("warn"), JsString("error")}
    THEN "logLevel"
    ELSE LET bad == {k \in DOMAIN booleanOptions :
                       /\ cfg[booleanOptions[k]] # JsUndefined
                       /\ cfg[booleanOptions[k]].type # "boolean"}
         IN IF bad # {} THEN booleanOptions[Min(bad)] ELSE "ok"

\* the configuration supplies a value that is not of the allowed form
SuppliesDisallowed(cfg) == DisallowedOption(cfg) # "ok"

\* C29: the validator throws for every configuration in which defaultVersion
\* is not v4 / v7, maxRetryAttempts is not a positive integer, logLevel is
\* not debug / info / warn / error, or one of autoGenerate,
\* validateUniqueness, allowManualEdit, autoMigrate is not a boolean; and it
\* accepts every configuration whose supplied values are all of the allowed
\* form.
C29_ValidatorRejectsExactlyDisallowed ==
    last.op = "validator" =>
       (last.outcome = "Error" <=> SuppliesDisallowed(config))

\* what holds: the validator throws only for a configuration that supplies a
\* disallowed value, and throws for every disallowed value that is truthy, a
\* non-number or a number below one, or a non-boolean option
C29_ValidatorRejectsOnlyDisallowed ==
    last.op = "validator" =>
       /\ last.outcome = "Error" => SuppliesDisallowed(config)
       /\ (SuppliesDisallowed(config) /\ last.outcome = "ok") =>
             \/ config.defaultVersion \in {JsString(""), JsNull}
             \/ config.logLevel \in {JsString(""), JsNull}
             \/ /\ config.maxRetryAttempts.type = "number"
                /\ ~LessThanOne(config.maxRetryAttempts)

\* the validator accepted maxRetryAttempts: 1.5
C29_FractionAccepted ==
    /\ last.op = "validator" /\ last.outcome = "ok"
    /\ config.maxRetryAttempts = JsNumber(3)

\* row i holds a non-empty value that an earlier row holds too: it is a
\* member other than the first of a duplicate group
NonFirstMember(st, uid, f, i) ==
    /\ ~Falsy(st[uid][i].vals[f])
    /\ \E j \in 1..(i - 1) : st[uid][j].vals[f] = st[uid][i].vals[f]

\* every row whose value differs after the step was in a category for which
\* Selected answers true
OnlySelectedRowsChange(Selected(_, _, _)) ==
    \A uid \in DOMAIN models : \A f \in Range(models[uid]) :
    \A i \in DOMAIN store[uid] :
       store'[uid][i].vals[f] # store[uid][i].vals[f] => Selected(uid, f, i)

\* each document is stored as one row
OneRowPerDocument(st) ==
    \A uid \in DOMAIN st : \A i, j \in DOMAIN st[uid] :
       i # j => st[uid][i].documentId # st[uid][j].documentId

\* the frame of the three reconciliation calls
ReconciliationFrame ==
    /\ last'.op = "autofix" =>
          LET Sel(uid, f, i) == NonFirstMember(store, uid, f, i)
          IN OnlySelectedRowsChange(Sel)
    /\ last'.op = "generateMissing" =>
          LET Sel(uid, f, i) == Falsy(store[uid][i].vals[f])
          IN OnlySelectedRowsChange(Sel)
    /\ last'.op = "runMigration" =>
          LET o == last'.options
              Sel(uid, f, i) ==
                 \/ o.fixEmpty /\ Falsy(store[uid][i].vals[f])
                 \/ /\ o.fixInvalid /\ ~Falsy(store[uid][i].vals[f])
                    /\ ~validateUuid(store[uid][i].vals[f])
                 \/ o.fixDuplicates /\ NonFirstMember(store, uid, f, i)
          IN /\ OnlySelectedRowsChange(Sel)
             /\ \A k \in DOMAIN last'.changes :
                   /\ last'.changes[k].type = "empty" => o.fixEmpty
                   /\ last'.changes[k].type = "invalid" => o.fixInvalid
                   /\ last'.changes[k].type = "duplicates" => o.fixDuplicates

\* C30: reconciliation touches only the selected categories: autofix changes
\* only members other than the first of a duplicate group, generateMissing
\* only rows whose value is null or empty, runMigration with fixEmpty /
\* fixInvalid / fixDuplicates false logs no change and makes no write of that
\* type; every other row keeps its value.
C30_ReconciliationTouchesOnlySelected ==
    [][last.op = "none" => ReconciliationFrame]_vars

\* what holds: the same frame when every document is stored as one row
C30_FrameWithOneRowPerDocument ==
    [][(last.op = "none" /\ OneRowPerDocument(store)) => ReconciliationFrame]_vars

\* C31: with validateUniqueness enabled, checkUuidExists(uid, field, value,
\* exclude) answers exists = true exactly when a row of that content type,
\* of a document other than the excluded one, holds the value in that field,
\* and then returns the documentId of such a row; otherwise it answers
\* exists = false with documentId null.
C31_OracleReturnsAnOwner ==
    config.validateUniqueness =>
       \A uid \in DOMAIN models : \A f \in Range(models[uid]) :
       \A v \in StoredValues \ {Empty} : \A ex \in DocIds \cup {Null} :
          LET r == checkUuidExists(config, store, uid, f, v, ex)
              holders == {i \in DOMAIN store[uid] :
                            /\ store[uid][i].vals[f] = v
                            /\ store[uid][i].documentId # ex}
          IN /\ r.exists <=> holders # {}
             /\ r.exists => \E i \in holders : r.documentId = store[uid][i].documentId
             /\ ~r.exists => r.documentId = Null

\* C31 witness: a create asked the oracle about a value that two documents
\* hold; with one of them excluded the oracle names the other.
C31_Witness ==
    /\ config.validateUniqueness
    /\ last.op = "create" /\ last.outcome = "ok"
    /\ \E v \in ValidUuids : \E ex \in DocIds :
          /\ \E i \in DOMAIN store.article :
                /\ store.article[i].documentId = ex
                /\ store.article[i].vals.uuid = v
          /\ checkUuidExists(config, store, "article", "uuid", v, ex).exists
          /\ checkUuidExists(config, store, "article", "uuid", v, ex).documentId
                \in DocIds \ {ex}

\* the rows the content type held when the latest create's hook ran
RowsBeforeCreate(l, st) ==
    IF l.outcome = "ok" THEN SubSeq(st[l.uid], 1, Len(st[l.uid]) - 1)
    ELSE st[l.uid]

\* C32: on create, a supplied value that passes format validation and that
\* no row of the content type holds in that field is committed exactly as
\* supplied: beforeCreate neither regenerates nor alters it, whether
\* autoGenerate is set or not.
C32_ValidUnheldValueCommittedAsSupplied ==
    last.op = "create" =>
       \A f \in Range(models[last.uid]) :
          (/\ validateUuid(last.supplied[f])
           /\ \A i \in DOMAIN RowsBeforeCreate(last, store) :
                 RowsBeforeCreate(last, store)[i].vals[f] # last.supplied[f])
          => /\ last.branch[f] \in {"absent", "unchecked", "notReached"}
             /\ last.data[f] = last.supplied[f]
             /\ last.outcome = "ok" =>
                   store[last.uid][Len(store[last.uid])].vals[f] = last.supplied[f]

\* C32 witness: with autoGenerate and validateUniqueness set, a create into
\* a content type that holds other values stored the valid value it supplied.
C32_Witness ==
    /\ config.autoGenerate /\ config.validateUniqueness
    /\ last.op = "create" /\ last.outcome = "ok"
    /\ validateUuid(last.supplied.uuid)
    /\ last.branch.uuid = "absent"
    /\ Len(store.article) > 1
    /\ store.article[Len(store.article)].vals.uuid = last.supplied.uuid
    /\ \A i \in 1..(Len(store.article) - 1) :
          /\ store.article[i].vals.uuid # last.supplied.uuid
          /\ validateUuid(store.article[i].vals.uuid)

\* an import that writes
LiveImport(l) ==
    l.op = "importMappings" /\ ~l.dryRun

\* C33: with validateUniqueness set, a live importMappings preserves
\* per-field uniqueness: when before the import no two distinct documentIds
\* hold the same non-empty value in a field, then after it, with overwrite
\* true or false and for any snapshot, the same is true.
C33_LiveImportPreservesUniquenessWhenValidated ==
    [][(/\ LiveImport(last') /\ last.op = "none"
        /\ config.validateUniqueness
        /\ NoDuplicates(models, store))
          => NoDuplicates(models, store')]_vars

\* the stronger reading of the claim's premise: no two rows with distinct
\* documentIds hold the same value, empty or not, in one monitored field
NoSharedValues(mdl, st) ==
    \A uid \in DOMAIN mdl : \A f \in Range(mdl[uid]) : \A i, j \in DOMAIN st[uid] :
        st[uid][i].documentId # st[uid][j].documentId
            => st[uid][i].vals[f] # st[uid][j].vals[f]

\* C33 as stated, for every configuration and under the stronger reading of
\* its premise: a live import into a store in which no two distinct
\* documentIds share a value leaves no two distinct documentIds sharing a
\* non-empty value.
C33_LiveImportPreservesUniquenessAnyConfig ==
    [][(LiveImport(last') /\ last.op = "none" /\ NoSharedValues(models, store))
          => NoDuplicates(models, store')]_vars

\* C33 witness: with validateUniqueness set, a live import wrote one entry
\* and had another rejected by beforeUpdate, and the store holds two
\* documents with distinct non-empty values.
C33_Witness ==
    /\ config.validateUniqueness
    /\ LiveImport(last)
    /\ last.imported >= 1
    /\ \E k \in DOMAIN last.errors : last.errors[k].kind = "failed"
    /\ NoDuplicates(models, store)
    /\ \E i, j \in DOMAIN store.article :
          /\ store.article[i].documentId # store.article[j].documentId
          /\ ~Falsy(store.article[i].vals.uuid)
          /\ ~Falsy(store.article[j].vals.uuid)

\* the value of field f in the latest create is one of the two the claim
\* is about: falsy, or malformed and held by no row of another document
EmptyOrUnheldMalformed(l, st, f) ==
    \/ Falsy(l.supplied[f])
    \/ /\ ~validateUuid(l.supplied[f])
       /\ \A i \in DOMAIN RowsBeforeCreate(l, st) :
             RowsBeforeCreate(l, st)[i].vals[f] = l.supplied[f]
                => RowsBeforeCreate(l, st)[i].documentId = l.currentDocumentId

\* C34: with autoGenerate disabled, beforeCreate generates no value for an
\* absent or empty field; an empty value is committed empty and a malformed
\* non-empty value that no other record holds is committed as supplied, and
\* a create all of whose monitored fields are of these two kinds is not
\* rejected.
C34_AutoGenerateOffKeepsEmptyAndMalformed ==
    (~config.autoGenerate /\ last.op = "create") =>
       /\ \A f \in Range(models[last.uid]) :
             /\ last.branch[f] # "generate"
             /\ EmptyOrUnheldMalformed(last, store, f) =>
                   /\ last.tried[f] = <<>>
                   /\ last.data[f] = last.supplied[f]
                   /\ last.outcome = "ok" =>
                         store[last.uid][Len(store[last.uid])].vals[f]
                            = Column(last.supplied[f])
       /\ (\A f \in Range(models[last.uid]) : EmptyOrUnheldMalformed(last, store, f))
             => last.outcome = "ok"

\* C34 as stated: with autoGenerate disabled no create is rejected by
\* beforeCreate.
C34_AutoGenerateOffNeverRejects ==
    (~config.autoGenerate /\ last.op = "create") => last.outcome = "ok"

\* C34 witness: with autoGenerate disabled and validateUniqueness set, a
\* create stored the malformed value it supplied next to a row that holds an
\* empty value.
C34_Witness ==
    /\ ~config.autoGenerate /\ config.validateUniqueness
    /\ last.op = "create" /\ last.outcome = "ok"
    /\ last.supplied.uuid = Malformed
    /\ last.branch.uuid = "absent"
    /\ store.article[Len(store.article)].vals.uuid = Malformed
    /\ \E i \in 1..(Len(store.article) - 1) : store.article[i].vals.uuid = Empty

\* C35: an update that sets a monitored field to null or to the empty string
\* is accepted by beforeUpdate without a format check and without a
\* uniqueness query: the field's pass throws nothing and asks nothing, an
\* update that sets nothing but empty values is not rejected, and the row it
\* selects holds the empty value afterwards.
C35_EmptyValueAcceptedUnchecked ==
    last.op = "update" =>
       /\ \A f \in Range(models[last.uid]) :
             last.supplied[f] = Empty =>
                /\ last.pass[f] \in {"pass", "notReached"}
                /\ ~last.queried[f]
                /\ (last.outcome = "ok" /\ last.target # 0) =>
                      store[last.uid][last.target].vals[f] = Empty
       /\ (\A f \in Range(models[last.uid]) : last.supplied[f] \in {Undefined, Empty})
             => /\ last.outcome = "ok"
                /\ last.error = [field |-> Null, uuid |-> Null]

\* C35 witness: with autoGenerate and validateUniqueness set, a row that a
\* create stored (hence with a valid identifier) holds the empty value after
\* an update whose documentId the hook resolved.
C35_Witness ==
    /\ config.autoGenerate /\ config.validateUniqueness
    /\ last.op = "update" /\ last.outcome = "ok"
    /\ last.reason = "pass"
    /\ last.supplied.uuid = Empty
    /\ last.pass.uuid = "pass"
    /\ last.target > MaxLegacyRows
    /\ store.article[last.target].vals.uuid = Empty

\* the where clause carries neither a documentId nor an id
NothingToResolve(where) ==
    ~where.present \/ (Falsy(where.documentId) /\ where.id = 0)

\* C36: beforeUpdate validates format and uniqueness only when a documentId
\* can be resolved from the where clause (where.documentId, or a record found
\* by where.id). An update for which none is resolved is let through
\* unchecked, whatever it sets, and its values are written; an update is
\* rejected only with a documentId resolved, and with one resolved a
\* malformed non-empty value is rejected.
C36_ValidatesOnlyWithResolvedDocumentId ==
    last.op = "update" =>
       /\ Falsy(last.documentId) =>
             /\ last.reason = "noDocumentId"
             /\ last.outcome = "ok"
             /\ \A f \in Range(models[last.uid]) :
                   /\ last.pass[f] = "notReached"
                   /\ ~last.queried[f]
                   /\ (last.target # 0 /\ last.supplied[f] # Undefined) =>
                         store[last.uid][last.target].vals[f] = last.supplied[f]
       /\ last.outcome = "ValidationError" => ~Falsy(last.documentId)
       /\ (/\ ~Falsy(last.documentId)
           /\ \E f \in Range(models[last.uid]) :
                 ~Falsy(last.supplied[f]) /\ ~validateUuid(last.supplied[f]))
             => last.outcome = "ValidationError"
       /\ \A where \in Wheres(store, last.uid) :
             /\ NothingToResolve(where) =>
                   Falsy(getDocumentIdFromWhere(store, last.uid, where))
             /\ (where.present /\ ~Falsy(where.documentId)) =>
                   getDocumentIdFromWhere(store, last.uid, where) = where.documentId
             /\ (where.present /\ Falsy(where.documentId) /\ where.id # 0) =>
                   getDocumentIdFromWhere(store, last.uid, where)
                      = store[last.uid][where.id].documentId

\* C36 witness: with validateUniqueness set, an update for which no
\* documentId was resolved wrote to a row a value that a row of another
\* document holds.
C36_Witness ==
    /\ config.validateUniqueness
    /\ last.op = "update" /\ last.outcome = "ok"
    /\ last.reason = "noDocumentId"
    /\ last.target # 0
    /\ validateUuid(last.supplied.uuid)
    /\ store.article[last.target].vals.uuid = last.supplied.uuid
    /\ \E j \in DOMAIN store.article :
          /\ store.article[j].documentId # store.article[last.target].documentId
          /\ store.article[j].vals.uuid = last.supplied.uuid

\* C36 witness for the format check: an update for which no documentId was
\* resolved wrote a malformed value to a row.
C36_MalformedLetThrough ==
    /\ last.op = "update" /\ last.outcome = "ok"
    /\ last.reason = "noDocumentId"
    /\ last.target # 0
    /\ last.supplied.uuid = Malformed
    /\ store.article[last.target].vals.uuid = Malformed

----------------------------------------------------------------------------
(* Specification *)

\* the content types bootstrap's findUuidModels() selects, with their fields
ArticleModels == [article |-> <<"uuid">>]

\* const config = {...}: the settings bootstrap reads
Configs ==
    [autoGenerate : BOOLEAN, validateUniqueness : BOOLEAN,
     maxRetryAttempts : 1..MaxRetryCfg]

NoOp == [op |-> "none", outcome |-> "none"]

\* the rows a content type can hold when the plugin starts: data written
\* before the hooks were subscribed, of any shape
LegacyRows(fields) ==
    UNION {[1..n -> [documentId : DocIds, vals : [Range(fields) -> StoredValues]]] :
            n \in 0..MaxLegacyRows}

Init ==
    /\ config \in Configs
    /\ models = ArticleModels
    /\ store \in [DOMAIN ArticleModels -> LegacyRows(ArticleModels.article)]
    /\ last = NoOp
    /\ inflight = NoCreates

Next ==
    \/ Create
    \/ Update
    \/ Diagnose
    \/ Autofix
    \/ GenerateMissing
    \/ CheckMigrationStatus
    \/ RunMigration
    \/ ExportMappings
    \/ ImportMappings
    \/ Return

Spec == Init /\ [][Next]_vars

\* two overlapping creates on a store of legacy rows
RaceInit ==
    /\ config \in Configs
    /\ models = ArticleModels
    /\ store \in [DOMAIN ArticleModels ->
                    UNION {[1..n -> [documentId : DocIds,
                                     vals : [Range(ArticleModels.article) -> StoredValues]]] :
                           n \in 0..MaxRaceLegacyRows}]
    /\ last = NoOp
    /\ inflight = NoCreates

RaceNext ==
    \/ \E p \in Procs : HookCreate(p)
    \/ \E p \in Procs : InsertCreate(p)

RaceSpec == RaceInit /\ [][RaceNext]_vars

\* imports of hand-written snapshots into a store of legacy rows
ImportInit ==
    /\ config \in Configs
    /\ models = ArticleModels
    /\ store \in [DOMAIN ArticleModels -> LegacyRows(ArticleModels.article)]
    /\ last = NoOp
    /\ inflight = NoCreates

ImportNext ==
    \/ ImportSnapshot
    \/ Return

ImportSpec == ImportInit /\ [][ImportNext]_vars

\* creates and generateMissing on a field configured with a prefix
PrefixInit ==
    /\ config \in Configs
    /\ models = ArticleModels
    /\ store \in [DOMAIN ArticleModels -> LegacyRows(ArticleModels.article)]
    /\ last = NoOp
    /\ inflight = NoCreates

PrefixNext ==
    \/ CreatePrefixed
    \/ GenerateMissing
    \/ Return

PrefixSpec == PrefixInit /\ [][PrefixNext]_vars

\* two monitored content types, one of them with two monitored fields
ScopeModels == [article |-> <<"uuid", "ref">>, page |-> <<"uuid">>]

\* one request against legacy rows of the two content types
ScopeInit ==
    /\ config \in {c \in Configs : c.maxRetryAttempts = 1}
    /\ models = ScopeModels
    /\ store \in [article : UNION {[1..n -> [documentId : DocIds,
                                             vals : [Range(ScopeModels.article) -> StoredValues]]] :
                                    n \in 0..MaxScopeRows},
                  page : UNION {[1..n -> [documentId : DocIds,
                                          vals : [Range(ScopeModels.page) -> StoredValues]]] :
                                 n \in 0..MaxScopeRows}]
    /\ last = NoOp
    /\ inflight = NoCreates

ScopeNext ==
    \/ Create
    \/ Update
    \/ Diagnose

ScopeSpec == ScopeInit /\ [][ScopeNext]_vars

\* the read-only endpoints on a store of legacy rows
ReadInit ==
    /\ config \in Configs
    /\ models = ArticleModels
    /\ store \in [DOMAIN ArticleModels -> LegacyRows(ArticleModels.article)]
    /\ last = NoOp
    /\ inflight = NoCreates

ReadNext ==
    \/ Diagnose
    \/ CheckMigrationStatus
    \/ ExportMappings
    \/ CheckDuplicate
    \/ Return

ReadSpec == ReadInit /\ [][ReadNext]_vars

\* const config = {...} with the autoMigrate setting
StartupConfigs ==
    [autoGenerate : BOOLEAN, validateUniqueness : BOOLEAN,
     maxRetryAttempts : 1..MaxRetryCfg, autoMigrate : BOOLEAN]

\* no content type uses the custom field
NoModels == [uid \in {} |-> <<>>]

\* the state bootstrap returns in: the hooks subscribed, the auto-migration
\* scheduled or not, the rows written before
StartupInit ==
    /\ config \in StartupConfigs
    /\ models \in {ArticleModels, NoModels}
    /\ store \in [DOMAIN ArticleModels ->
                    UNION {[1..n -> [documentId : DocIds,
                                     vals : [Range(ArticleModels.article) -> StoredValues]]] :
                           n \in 0..MaxStartupRows}]
    /\ last = NoOp
    /\ inflight = AfterBootstrap(config, models)

StartupNext ==
    \/ AutoMigrate
    \/ Create
    \/ Return

\* setImmediate runs its callback: the scheduled auto-migration is not
\* postponed forever
StartupSpec == StartupInit /\ [][StartupNext]_vars /\ WF_vars(AutoMigrate)

\* the configurations a user can write in config/plugins.js
UserConfigs ==
    [defaultVersion : {JsUndefined, JsString("v4"), JsString("v7"), JsString("v5"),
                       JsString(""), JsNull},
     maxRetryAttempts : {JsUndefined, JsString("3"), JsNaN}
                          \cup {JsNumber(t) : t \in 0..MaxTwiceRetry},
     logLevel : {JsUndefined, JsString("info"), JsString("verbose"), JsString("")},
     autoGenerate : {JsUndefined, JsBoolean(TRUE), JsBoolean(FALSE), JsString("true")},
     validateUniqueness : {JsUndefined, JsBoolean(FALSE), JsNull},
     allowManualEdit : {JsUndefined, JsBoolean(TRUE), JsNumber(2)},
     autoMigrate : {JsUndefined, JsBoolean(TRUE), JsString("")}]

\* the plugin is being loaded: the user's configuration is about to be
\* validated, nothing is stored yet
ConfigInit ==
    /\ config \in UserConfigs
    /\ models = ArticleModels
    /\ store = [uid \in DOMAIN ArticleModels |-> <<>>]
    /\ last = NoOp
    /\ inflight = NoCreates

ConfigNext ==
    \/ ValidateConfig
    \/ Return

ConfigSpec == ConfigInit /\ [][ConfigNext]_vars

====
